---- MODULE Spec2Model ----
(***************************************************************************)
(* The glTF2 asset model of src/code/glTF2Asset.inl: the lazy dictionaries *)
(* (LazyDict<T>), the per-object Read steps, Asset::Load and the unique-id *)
(* allocator Asset::FindUniqueID.                                          *)
(*                                                                         *)
(* A parsed JSON document is a value built from Obj, Arr, UInt and Str; the *)
(* asset is the record of its dictionaries' fields.  Every operation is an *)
(* operator from an asset record to a result record [a, ref, err, crash]   *)
(* (the asset afterwards, the handle returned, the message of the thrown   *)
(* DeadlyImportError or "", and whether the process died), and an action   *)
(* applies one operation to the current asset.                             *)
(***************************************************************************)
EXTENDS Integers, Sequences, FiniteSets, TLC

\* ------------------------------------------------------------------------
\* Bounds of the model
\* ------------------------------------------------------------------------
MaxIndex == 1

MaxCreate == 2

MaxStackDepth == 5

MaxAlloc == 6

\* ------------------------------------------------------------------------
\* JSON values (rapidjson Value) and the reading helpers
\* ------------------------------------------------------------------------
Null == [t |-> "null"]

Obj(m) == [t |-> "obj", m |-> m]

Arr(e) == [t |-> "arr", e |-> e]

UInt(n) == [t |-> "uint", v |-> n]

Str(s) == [t |-> "str", v |-> s]

NoMembers == <<>>

IsNull(v) == v.t = "null"

IsObject(v) == v.t = "obj"

IsArray(v) == v.t = "arr"

IsUint(v) == v.t = "uint"

IsString(v) == v.t = "str"

Size(v) == Len(v.e)

At(v, i) == v.e[i + 1]

HasMember(val, id) == id \in DOMAIN val.m

FindMember(val, id) == IF HasMember(val, id) THEN val.m[id] ELSE Null

FindString(val, id) ==
    IF HasMember(val, id) /\ IsString(val.m[id]) THEN val.m[id] ELSE Null

FindUInt(val, id) ==
    IF HasMember(val, id) /\ IsUint(val.m[id]) THEN val.m[id] ELSE Null

FindArray(val, id) ==
    IF HasMember(val, id) /\ IsArray(val.m[id]) THEN val.m[id] ELSE Null

FindObject(val, id) ==
    IF HasMember(val, id) /\ IsObject(val.m[id]) THEN val.m[id] ELSE Null

\* ReadMember(obj, "name", inst->name): the string member, else the default
ReadMemberString(obj, id, dflt) ==
    IF HasMember(obj, id) /\ IsString(obj.m[id]) THEN obj.m[id].v ELSE dflt

\* ------------------------------------------------------------------------
\* Maps (std::map / unordered_map) and handles (Ref<T>)
\* ------------------------------------------------------------------------
EmptyMap == <<>>

MapHas(m, k) == k \in DOMAIN m

MapPut(m, k, v) == [x \in (DOMAIN m) \cup {k} |-> IF x = k THEN v ELSE m[x]]

NullRef == [vector |-> "", index |-> 0]

Ref(d, idx) == [vector |-> d, index |-> idx]

\* Ref<T>::operator bool
IsSet(ref) == ref.vector # ""

\* ------------------------------------------------------------------------
\* The dictionaries of an asset
\* ------------------------------------------------------------------------
DictIds == {"scenes", "nodes", "meshes", "cameras", "materials", "lights"}

ExtId(d) == IF d = "lights" THEN "KHR_lights_punctual" ELSE ""

\* std::to_string(i)
to_string(i) == ToString(i)

Result(a, ref, err, crash) == [a |-> a, ref |-> ref, err |-> err, crash |-> crash]

Ok(a, ref) == Result(a, ref, "", FALSE)

Throw(a, msg) == Result(a, NullRef, msg, FALSE)

Crash(a, what) == Result(a, NullRef, what, TRUE)

Failed(r) == r.err # ""

\* ------------------------------------------------------------------------
\* LazyDict<T>
\* ------------------------------------------------------------------------
\* the outcomes of undefined behaviour (an index past the end of a rapidjson
\* array, a read through a pointer into a destroyed Document): the build
\* either dies on the spot or carries on with whatever the memory holds
UBOutcomes == {"dies", "carries on"}

\* new T(): the object's fields before Retrieve/Create and T::Read fill them
NewObject(a, d) ==
    [addr |-> a.nextAddr, id |-> "", name |-> "", index |-> -1, oIndex |-> -1,
     children |-> <<>>, meshes |-> <<>>, camera |-> NullRef,
     nodes |-> <<>>, primitives |-> <<>>]

Allocate(a) == [a EXCEPT !.nextAddr = @ + 1]

CountNew(a, d, i) ==
    [a EXCEPT !.newCount = MapPut(@, <<d, i>>,
                                  IF MapHas(@, <<d, i>>) THEN @[<<d, i>>] + 1 ELSE 1)]

\* (*vector)[index]
Deref(a, ref) == a.mObjs[ref.vector][ref.index + 1]

CanDeref(a, ref) == IsSet(ref) /\ ref.index < Len(a.mObjs[ref.vector])

AttachToDocument(a, d, doc) ==
    LET exts == FindObject(doc, "extensions")
        container == IF ExtId(d) # ""
                     THEN (IF ~IsNull(exts) THEN FindObject(exts, ExtId(d)) ELSE Null)
                     ELSE doc
    IN IF ~IsNull(container)
       THEN [a EXCEPT !.mDict[d] = FindArray(container, d)]
       ELSE a

\* DetachFromDocument that keeps the pointer into the document
DetachNot(a, d) == a

DetachFromDocument(a, d) == [a EXCEPT !.mDict[d] = Null]

Add(a, d, obj) ==
    LET idx == Len(a.mObjs[d])
    IN Ok([a EXCEPT !.mObjs[d] = Append(@, obj),
                    !.mObjsByOIndex[d] = MapPut(@, obj.oIndex, idx),
                    !.mObjsById[d] = MapPut(@, obj.id, idx),
                    !.mUsedIds = MapPut(@, obj.id, TRUE)],
          Ref(d, idx))

\* Get(i) that looks the index up in the index cache
GetChecked(a, d, i) ==
    IF MapHas(a.mObjsByOIndex[d], i)
    THEN Ok(a, Ref(d, a.mObjsByOIndex[d][i]))
    ELSE Ok(a, NullRef)

Get(a, d, i) == Ok(a, Ref(d, i))

\* T::TranslateId
TranslateId(a, id) == id

\* Get(const char*) raising an error for an id that is not registered
GetByIdOrThrow(a, d, id0) ==
    LET id == TranslateId(a, id0)
    IN IF MapHas(a.mObjsById[d], id)
       THEN Ok(a, Ref(d, a.mObjsById[d][id]))
       ELSE Throw(a, "GLTF: no object with this ID")

GetById(a, d, id0) ==
    LET id == TranslateId(a, id0)
    IN IF MapHas(a.mObjsById[d], id)
       THEN Ok(a, Ref(d, a.mObjsById[d][id]))
       ELSE Ok(a, NullRef)

ErrDuplicateId == "GLTF: two objects with the same ID exist"

\* Create without the look-up in the ids in use
CreateNoCheck(a, d, id) ==
    LET idx == Len(a.mObjs[d])
        inst == [NewObject(a, d) EXCEPT !.id = id, !.index = idx, !.oIndex = idx]
    IN Add(Allocate(a), d, inst)

Create(a, d, id) ==
    IF MapHas(a.mUsedIds, id)
    THEN Throw(a, ErrDuplicateId)
    ELSE LET idx == Len(a.mObjs[d])
             inst == [NewObject(a, d) EXCEPT !.id = id, !.index = idx, !.oIndex = idx]
         IN Add(Allocate(a), d, inst)

ErrMissingSection(d) == "GLTF: Missing section \"" \o d \o "\""

ErrNotArray(d) == "GLTF: Field is not an array \"" \o d \o "\""

ErrNotObject(i) == "GLTF: Object at index \"" \o to_string(i) \o "\" is not a JSON object"

ErrCamera == "GLTF: Camera missing its parameters"

\* the result of a T::Read step: the asset, the object being read, the error
ReadResult(a, inst, err, crash) == [a |-> a, inst |-> inst, err |-> err, crash |-> crash]

\* the result of a loop of Retrieve calls: the asset, the handles collected
EachResult(a, refs, err, crash) == [a |-> a, refs |-> refs, err |-> err, crash |-> crash]

\* this->camera->id = this->id
SetId(a, ref, id) == [a EXCEPT !.mObjs[ref.vector][ref.index + 1].id = id]

RECURSIVE Retrieve(_, _, _, _, _)
RECURSIVE RetrieveEach(_, _, _, _, _, _, _)
RECURSIVE ReadPrimitives(_, _, _, _, _, _)

\* for (i = 0; i < array->Size(); ++i) { if (!(*array)[i].IsUint()) continue;
\*   Ref<T> r = dict.Retrieve((*array)[i].GetUint()); if (r) push_back(r); }
\* ... if (r) push_back(r); and the next round of the loop
PushBack(r, d, array, k, acc, depth, ub) ==
    IF Failed(r)
    THEN EachResult(r.a, acc, r.err, r.crash)
    ELSE RetrieveEach(r.a, d, array, k + 1,
                      IF IsSet(r.ref) THEN Append(acc, r.ref) ELSE acc, depth, ub)

RetrieveEach(a, d, array, k, acc, depth, ub) ==
    IF k >= Size(array)
    THEN EachResult(a, acc, "", FALSE)
    ELSE IF ~IsUint(At(array, k))
    THEN RetrieveEach(a, d, array, k + 1, acc, depth, ub)
    ELSE PushBack(Retrieve(a, d, At(array, k).v, depth, ub), d, array, k, acc, depth, ub)

\* this->nodes, filled by the loop over "nodes"
SceneNodes(e, inst) == ReadResult(e.a, [inst EXCEPT !.nodes = e.refs], e.err, e.crash)

SceneRead(a, inst, obj, depth, ub) ==
    IF IsNull(FindArray(obj, "nodes"))
    THEN ReadResult(a, inst, "", FALSE)
    ELSE SceneNodes(RetrieveEach(a, "nodes", FindArray(obj, "nodes"), 0, <<>>, depth, ub),
                    inst)

\* this->children, filled by the loop over "children"
NodeChildren(e, inst) == ReadResult(e.a, [inst EXCEPT !.children = e.refs], e.err, e.crash)

\* if (meshRef) this->meshes.push_back(meshRef);
NodeMesh(r, inst) ==
    ReadResult(r.a, IF IsSet(r.ref) THEN [inst EXCEPT !.meshes = Append(@, r.ref)] ELSE inst,
               r.err, r.crash)

\* this->camera = r.cameras.Retrieve(...); if (this->camera) this->camera->id = this->id;
NodeCamera(r, inst) ==
    IF Failed(r) THEN ReadResult(r.a, inst, r.err, r.crash)
    ELSE IF IsSet(r.ref)
    THEN ReadResult(SetId(r.a, r.ref, inst.id), [inst EXCEPT !.camera = r.ref], "", FALSE)
    ELSE ReadResult(r.a, [inst EXCEPT !.camera = r.ref], "", FALSE)

\* if (Value* children = FindArray(obj, "children")) { ... }
NodeReadChildren(a, inst, obj, depth, ub) ==
    IF IsNull(FindArray(obj, "children"))
    THEN ReadResult(a, inst, "", FALSE)
    ELSE NodeChildren(RetrieveEach(a, "nodes", FindArray(obj, "children"), 0, <<>>,
                                   depth, ub), inst)

\* if (Value* meshes = FindUInt(obj, "mesh")) { ... }; s is the read so far
NodeReadMesh(s, obj, depth, ub) ==
    IF Failed(s) \/ IsNull(FindUInt(obj, "mesh"))
    THEN s
    ELSE NodeMesh(Retrieve(s.a, "meshes", FindUInt(obj, "mesh").v, depth, ub), s.inst)

\* if (Value* camera = FindUInt(obj, "camera")) { ... }; s is the read so far
NodeReadCamera(s, obj, depth, ub) ==
    IF Failed(s) \/ IsNull(FindUInt(obj, "camera"))
    THEN s
    ELSE NodeCamera(Retrieve(s.a, "cameras", FindUInt(obj, "camera").v, depth, ub), s.inst)

NodeRead(a, inst, obj, depth, ub) ==
    NodeReadCamera(NodeReadMesh(NodeReadChildren(a, inst, obj, depth, ub), obj, depth, ub),
                   obj, depth, ub)

\* the loop over "primitives" of Mesh::Read; the documents of the model give
\* a primitive no "attributes" and no "indices", only a "material"
\* prim.material = r.materials.Retrieve(...), and the next primitive
PrimitiveMaterial(r, inst, primitives, k, depth, ub) ==
    IF Failed(r)
    THEN ReadResult(r.a, inst, r.err, r.crash)
    ELSE ReadPrimitives(r.a, [inst EXCEPT !.primitives = Append(@, [material |-> r.ref])],
                        primitives, k + 1, depth, ub)

ReadPrimitives(a, inst, primitives, k, depth, ub) ==
    IF k >= Size(primitives)
    THEN ReadResult(a, inst, "", FALSE)
    ELSE IF IsNull(FindUInt(At(primitives, k), "material"))
    THEN PrimitiveMaterial(Ok(a, NullRef), inst, primitives, k, depth, ub)
    ELSE PrimitiveMaterial(Retrieve(a, "materials",
                                    FindUInt(At(primitives, k), "material").v, depth, ub),
                           inst, primitives, k, depth, ub)

MeshRead(a, inst, obj, depth, ub) ==
    IF IsNull(FindArray(obj, "primitives"))
    THEN ReadResult(a, [inst EXCEPT !.name = ReadMemberString(obj, "name", @)], "", FALSE)
    ELSE ReadPrimitives(a, [inst EXCEPT !.name = ReadMemberString(obj, "name", @)],
                        FindArray(obj, "primitives"), 0, depth, ub)

\* no "type" member is an integer in the documents of the model, so the
\* camera type is the default (Perspective) and the sub-object "perspective"
CameraRead(a, inst, obj, depth, ub) ==
    IF IsNull(FindObject(obj, "perspective"))
    THEN ReadResult(a, inst, ErrCamera, FALSE)
    ELSE ReadResult(a, inst, "", FALSE)

\* the materials of the model's documents have no texture properties
MaterialRead(a, inst, obj, depth, ub) == ReadResult(a, inst, "", FALSE)

LightRead(a, inst, obj, depth, ub) == ReadResult(a, inst, "", FALSE)

\* inst->Read(obj, mAsset)
Read(a, d, inst, obj, depth, ub) ==
    CASE d = "scenes" -> SceneRead(a, inst, obj, depth, ub)
      [] d = "nodes" -> NodeRead(a, inst, obj, depth, ub)
      [] d = "meshes" -> MeshRead(a, inst, obj, depth, ub)
      [] d = "cameras" -> CameraRead(a, inst, obj, depth, ub)
      [] d = "materials" -> MaterialRead(a, inst, obj, depth, ub)
      [] OTHER -> LightRead(a, inst, obj, depth, ub)

\* history: the handle and the address of the first object that a Retrieve
\* registered for entry i of dictionary d
Remember(r, d, i) ==
    IF MapHas(r.a.firstRet, <<d, i>>) THEN r
    ELSE [r EXCEPT !.a.firstRet = MapPut(@, <<d, i>>,
                       [ref |-> r.ref, addr |-> r.a.mObjs[d][r.ref.index + 1].addr])]

\* T* inst = new T(); inst->id = ...; inst->oIndex = i; ReadMember(obj, "name", inst->name);
Instance(a, d, i) ==
    [NewObject(a, d) EXCEPT !.id = d \o "_" \o to_string(i),
                            !.oIndex = i,
                            !.name = ReadMemberString(At(a.mDict[d], i), "name", @)]

\* return Add(inst), unless inst->Read has thrown
AddRead(rd, d, i) ==
    IF Failed(rd) THEN Result(rd.a, NullRef, rd.err, rd.crash)
    ELSE Remember(Add(rd.a, d, rd.inst), d, i)

\* what Retrieve(i) does once it has found no cached object for i
Construct(a, d, i, depth, ub) ==
    IF ~IsObject(At(a.mDict[d], i)) THEN Throw(a, ErrNotObject(i))
    ELSE IF depth >= MaxStackDepth THEN Crash(a, "stack overflow")
    ELSE AddRead(Read(CountNew(Allocate(a), d, i), d, Instance(a, d, i),
                      At(a.mDict[d], i), depth + 1, ub), d, i)

\* Retrieve without the look-up of the object already created
RetrieveAlways(a, d, i, depth, ub) ==
    IF IsNull(a.mDict[d])
    THEN Throw(a, ErrMissingSection(d))
    ELSE IF ~a.docAlive /\ ub = "dies"
    THEN Crash(a, "read of a destroyed document")
    ELSE IF i >= Size(a.mDict[d])
    THEN (IF ub = "dies" THEN Crash(a, "array index out of range")
          ELSE Throw(a, ErrNotObject(i)))
    ELSE Construct(a, d, i, depth, ub)

\* Retrieve without the test of the pointer to the section
RetrieveNoSectionTest(a, d, i, depth, ub) ==
    IF MapHas(a.mObjsByOIndex[d], i)
    THEN Ok(a, Ref(d, a.mObjsByOIndex[d][i]))
    ELSE IF ~IsArray(a.mDict[d])
    THEN Throw(a, ErrNotArray(d))
    ELSE IF i >= Size(a.mDict[d])
    THEN Throw(a, ErrNotObject(i))
    ELSE Construct(a, d, i, depth, ub)

Retrieve(a, d, i, depth, ub) ==
    IF MapHas(a.mObjsByOIndex[d], i)
    THEN Ok(a, Ref(d, a.mObjsByOIndex[d][i]))
    ELSE IF IsNull(a.mDict[d])
    THEN Throw(a, ErrMissingSection(d))
    ELSE IF ~a.docAlive /\ ub = "dies"
    THEN Crash(a, "read of a destroyed document")
    ELSE IF ~IsArray(a.mDict[d])
    THEN Throw(a, ErrNotArray(d))
    ELSE IF i >= Size(a.mDict[d])
    THEN (IF ub = "dies" THEN Crash(a, "array index out of range")
          ELSE Throw(a, ErrNotObject(i)))
    ELSE Construct(a, d, i, depth, ub)

\* ------------------------------------------------------------------------
\* Asset::FindUniqueID
\* ------------------------------------------------------------------------
BufferSize == 256

LoopCap == 4

\* what ai_snprintf(dst, size, ...) stores at dst before the terminating 0
Stored(s, size) ==
    IF size <= 0 THEN ""
    ELSE IF Len(s) <= size - 1 THEN s
    ELSE SubSeq(s, 1, size - 1)

IdResult(a, id, err, crash) == [a |-> a, id |-> id, err |-> err, crash |-> crash]

\* a loop that numbers from 1 and does not look the id up
FindLoopFromOne(a, buffer, offset, i) ==
    IdResult(a, buffer \o Stored(to_string(i + 1), BufferSize - offset), "", FALSE)

RECURSIVE FindLoop(_, _, _, _)

\* for (int i = 0; it != mUsedIds.end(); ++i) { ai_snprintf(buffer + offset,
\*   sizeof(buffer) - offset, "%d", i); id = buffer; it = mUsedIds.find(id); }
\* A candidate that stays registered for LoopCap rounds is one that the
\* buffer has cut the digits from: the loop then never ends.
FindLoop(a, buffer, offset, i) ==
    LET id == buffer \o Stored(to_string(i), BufferSize - offset)
    IN IF ~MapHas(a.mUsedIds, id) THEN IdResult(a, id, "", FALSE)
       ELSE IF i >= LoopCap THEN IdResult(a, "", "endless loop", TRUE)
       ELSE FindLoop(a, buffer, offset, i + 1)

\* FindUniqueID that returns the candidate with the suffix without a look-up
FindUniqueNoLoop(a, str, suffix, ub) ==
    IF str # "" /\ ~MapHas(a.mUsedIds, str) THEN IdResult(a, str, "", FALSE)
    ELSE IdResult(a, IF str # "" THEN str \o "_" \o suffix ELSE suffix, "", FALSE)

\* FindUniqueID that reserves the id it returns
FindUniqueReserve(a, str, suffix, ub) ==
    IF str # "" /\ ~MapHas(a.mUsedIds, str)
    THEN IdResult([a EXCEPT !.mUsedIds = MapPut(@, str, TRUE)], str, "", FALSE)
    ELSE IdResult([a EXCEPT !.mUsedIds =
                      MapPut(@, IF str # "" THEN str \o "_" \o suffix ELSE suffix, TRUE)],
                  IF str # "" THEN str \o "_" \o suffix ELSE suffix, "", FALSE)

FindUniqueID(a, str, suffix, ub) ==
    LET id == IF str # "" THEN str \o "_" \o suffix ELSE suffix
        offset == Len(id) + 1
        buffer == Stored(id \o "_", BufferSize)
    IN IF str # "" /\ ~MapHas(a.mUsedIds, str) THEN IdResult(a, str, "", FALSE)
       ELSE IF ~MapHas(a.mUsedIds, id) THEN IdResult(a, id, "", FALSE)
       ELSE IF offset > BufferSize /\ ub = "dies"
       THEN IdResult(a, "", "write past the end of buffer", TRUE)
       ELSE FindLoop(a, buffer, offset, 0)

\* ------------------------------------------------------------------------
\* AssetMetadata::Read and Asset::Load
\* ------------------------------------------------------------------------
ErrVersion(version) == "GLTF: Unsupported glTF version: " \o version

AssetMetadataRead(doc) ==
    LET obj == FindObject(doc, "asset")
        versionString == IF IsNull(obj) THEN Null ELSE FindString(obj, "version")
        version == IF IsNull(versionString) THEN "" ELSE versionString.v
    IN IF version = "" \/ SubSeq(version, 1, 1) # "2" THEN ErrVersion(version) ELSE ""

RECURSIVE AttachAll(_, _, _)

\* for (i = 0; i < mDicts.size(); ++i) mDicts[i]->AttachToDocument(doc);
AttachAll(a, ds, doc) ==
    IF ds = {} THEN a
    ELSE LET d == CHOOSE x \in ds : TRUE
         IN AttachAll(AttachToDocument(a, d, doc), ds \ {d}, doc)

RECURSIVE DetachAll(_, _)

\* for (i = 0; i < mDicts.size(); ++i) mDicts[i]->DetachFromDocument();
DetachAll(a, ds) ==
    IF ds = {} THEN a
    ELSE LET d == CHOOSE x \in ds : TRUE
         IN DetachAll(DetachFromDocument(a, d), ds \ {d})

\* if (Value* scene = FindUInt(doc, "scene")) { this->scene = scenes.Retrieve(...); }
SetScene(r) == IF Failed(r) THEN r ELSE Ok([r.a EXCEPT !.scene = r.ref], r.ref)

\* Load that resolves scene 0 when the document declares no scene
LoadFirstScene(a, doc, ub) ==
    SetScene(Retrieve(a, "scenes",
                      IF IsNull(FindUInt(doc, "scene")) THEN 0 ELSE FindUInt(doc, "scene").v,
                      0, ub))

LoadSceneProperty(a, doc, ub) ==
    IF IsNull(FindUInt(doc, "scene")) THEN Ok(a, a.scene)
    ELSE SetScene(Retrieve(a, "scenes", FindUInt(doc, "scene").v, 0, ub))

\* ------------------------------------------------------------------------
\* Documents
\* ------------------------------------------------------------------------
Opt(key, present, val) == IF present THEN key :> val ELSE NoMembers

AssetV2 == "asset" :> Obj("version" :> Str("2.0"))

OneScene == "scene" :> UInt(0) @@ "scenes" :> Arr(<<Obj("nodes" :> Arr(<<UInt(0)>>))>>)

PerspectiveCamera == Obj("perspective" :> Obj(NoMembers))

\* meshes = [m0, m1], the scene references only m1
DocScenario ==
    Obj(AssetV2 @@ OneScene
        @@ "nodes" :> Arr(<<Obj("mesh" :> UInt(1))>>)
        @@ "meshes" :> Arr(<<Obj("name" :> Str("m0")), Obj("name" :> Str("m1"))>>))

\* a mesh and a camera that two nodes reference, and an extension dictionary
DocDiamond ==
    Obj(AssetV2 @@ OneScene
        @@ "nodes" :> Arr(<<Obj("children" :> Arr(<<UInt(1), UInt(2)>>)),
                            Obj("mesh" :> UInt(0) @@ "camera" :> UInt(0)),
                            Obj("mesh" :> UInt(0) @@ "camera" :> UInt(0))>>)
        @@ "meshes" :> Arr(<<Obj("primitives" :> Arr(<<Obj("material" :> UInt(0))>>))>>)
        @@ "materials" :> Arr(<<Obj(NoMembers)>>)
        @@ "cameras" :> Arr(<<PerspectiveCamera>>)
        @@ "extensions" :> Obj("KHR_lights_punctual" :>
                                   Obj("lights" :> Arr(<<Obj(NoMembers)>>))))

\* a node references a camera, the document has no "cameras" section and an
\* "extensions" object without the extension of the lights dictionary
DocNoCameras ==
    Obj(AssetV2 @@ OneScene
        @@ "nodes" :> Arr(<<Obj("camera" :> UInt(0))>>)
        @@ "extensions" :> Obj("KHR_other" :> Obj(NoMembers)))

\* the extension is there, its "lights" member is not; a mesh without material
DocNoLights ==
    Obj(AssetV2 @@ OneScene
        @@ "nodes" :> Arr(<<Obj("mesh" :> UInt(0))>>)
        @@ "meshes" :> Arr(<<Obj("primitives" :> Arr(<<Obj(NoMembers)>>))>>)
        @@ "extensions" :> Obj("KHR_lights_punctual" :> Obj(NoMembers)))

\* two nodes that name each other as child
DocCycle ==
    Obj(AssetV2 @@ OneScene
        @@ "nodes" :> Arr(<<Obj("children" :> Arr(<<UInt(1)>>)),
                            Obj("children" :> Arr(<<UInt(0)>>))>>))

\* no "scene" member
DocNoScene ==
    Obj(AssetV2
        @@ "scenes" :> Arr(<<Obj("nodes" :> Arr(<<UInt(0)>>))>>)
        @@ "nodes" :> Arr(<<Obj("mesh" :> UInt(0))>>)
        @@ "meshes" :> Arr(<<Obj(NoMembers)>>))

\* the mesh entry is not a JSON object
DocNotObject ==
    Obj(AssetV2 @@ OneScene
        @@ "nodes" :> Arr(<<Obj("children" :> Arr(<<UInt(1)>>) @@ "mesh" :> UInt(0)),
                            Obj(NoMembers)>>)
        @@ "meshes" :> Arr(<<Str("m0")>>))

\* the node references mesh 2 of a one-element array
DocOutOfRange ==
    Obj(AssetV2 @@ OneScene
        @@ "nodes" :> Arr(<<Obj("mesh" :> UInt(2))>>)
        @@ "meshes" :> Arr(<<Obj(NoMembers)>>))

\* the camera has no "perspective" object
DocCameraNoParams ==
    Obj(AssetV2 @@ OneScene
        @@ "nodes" :> Arr(<<Obj("mesh" :> UInt(0) @@ "camera" :> UInt(0))>>)
        @@ "meshes" :> Arr(<<Obj(NoMembers)>>)
        @@ "cameras" :> Arr(<<Obj(NoMembers)>>))

\* "meshes" is an object, not an array
DocNotArray ==
    Obj(AssetV2 @@ OneScene
        @@ "nodes" :> Arr(<<Obj("mesh" :> UInt(0))>>)
        @@ "meshes" :> Obj(NoMembers))

\* a glTF 1.0 document
DocOldVersion ==
    Obj("asset" :> Obj("version" :> Str("1.0")) @@ OneScene
        @@ "nodes" :> Arr(<<Obj(NoMembers)>>))

Documents ==
    {DocScenario, DocDiamond, DocNoCameras, DocNoLights, DocCycle, DocNoScene,
     DocNotObject, DocOutOfRange, DocCameraNoParams, DocNotArray, DocOldVersion}

\* ------------------------------------------------------------------------
\* State
\* ------------------------------------------------------------------------
VARIABLES doc, pc, mDict, mObjs, mObjsByOIndex, mObjsById, mUsedIds, scene,
          docAlive, nextAddr, newCount, firstRet, hist, ret, crashed

\* the COLLADA parser: the controller library and the loop of
\* PostProcessControllers over it; the top-level elements of the document,
\* the node library and the root node of ReadStructure
VARIABLES controllers, mControllerLibrary, keyOrder, it, meshId, ppc,
          sections, pos, mNodeLibrary, mRootNode, thrown

colladaVars == <<controllers, mControllerLibrary, keyOrder, it, meshId, ppc,
                 sections, pos, mNodeLibrary, mRootNode, thrown>>

\* the exporter's node tree and the walk of FindSkeletonRootJoint
VARIABLES parent, jointName, jointNames, startNodeRef, parentNodeRef, fpc

skinVars == <<parent, jointName, jointNames, startNodeRef, parentNodeRef, fpc>>

\* the COLLADA parser in ReadGeometryLibrary: the <geometry> children of the
\* library, the place of the reader among them, the mesh library
VARIABLES geometries, gpos, mMeshLibrary

geomVars == <<geometries, gpos, mMeshLibrary>>

\* a Buffer of the exported asset: its bytes and its length field, whether a
\* byte outside an allocation was read or written, the calls made on it
VARIABLES mData, byteLength, outside, calls

bufferVars == <<mData, byteLength, outside, calls>>

\* the exporter: the scene it is given, the file name, the step it is at
VARIABLES mScene, mFilename, epc

exportVars == <<mScene, mFilename, epc>>

otherVars == <<geomVars, bufferVars, exportVars>>

assetVars == <<mDict, mObjs, mObjsByOIndex, mObjsById, mUsedIds, scene,
               docAlive, nextAddr, newCount, firstRet>>

vars == <<doc, pc, mDict, mObjs, mObjsByOIndex, mObjsById, mUsedIds, scene,
          docAlive, nextAddr, newCount, firstRet, hist, ret, crashed,
          colladaVars, skinVars, otherVars>>

\* the asset as the record the operations work on
Cur ==
    [mDict |-> mDict, mObjs |-> mObjs, mObjsByOIndex |-> mObjsByOIndex,
     mObjsById |-> mObjsById, mUsedIds |-> mUsedIds, scene |-> scene,
     docAlive |-> docAlive, nextAddr |-> nextAddr, newCount |-> newCount,
     firstRet |-> firstRet]

Becomes(a) ==
    /\ mDict' = a.mDict
    /\ mObjs' = a.mObjs
    /\ mObjsByOIndex' = a.mObjsByOIndex
    /\ mObjsById' = a.mObjsById
    /\ mUsedIds' = a.mUsedIds
    /\ scene' = a.scene
    /\ docAlive' = a.docAlive
    /\ nextAddr' = a.nextAddr
    /\ newCount' = a.newCount
    /\ firstRet' = a.firstRet

\* what the last call was and what came back from it
Ret(op, d, i, id, str, suffix, ref, err, rep) ==
    [op |-> op, d |-> d, i |-> i, id |-> id, str |-> str, suffix |-> suffix,
     ref |-> ref, err |-> err, rep |-> rep]

NoRet == Ret("", "", 0, "", "", "", NullRef, "", 0)

\* Asset::Asset and LazyDict<T>::LazyDict
InitAsset ==
    /\ pc = "idle"
    /\ mDict = [d \in DictIds |-> Null]
    /\ mObjs = [d \in DictIds |-> <<>>]
    /\ mObjsByOIndex = [d \in DictIds |-> EmptyMap]
    /\ mObjsById = [d \in DictIds |-> EmptyMap]
    /\ mUsedIds = EmptyMap
    /\ scene = NullRef
    /\ docAlive = FALSE
    /\ nextAddr = 1
    /\ newCount = EmptyMap
    /\ firstRet = EmptyMap
    /\ hist = <<>>
    /\ ret = NoRet
    /\ crashed = FALSE

\* no COLLADA document is being parsed
NoCollada ==
    /\ controllers = EmptyMap
    /\ mControllerLibrary = EmptyMap
    /\ keyOrder = <<>>
    /\ it = 1
    /\ meshId = ""
    /\ ppc = "idle"
    /\ sections = <<>>
    /\ pos = 1
    /\ mNodeLibrary = {}
    /\ mRootNode = <<>>
    /\ thrown = ""

\* no skin is being exported
NoSkin ==
    /\ parent = <<>>
    /\ jointName = <<>>
    /\ jointNames = <<>>
    /\ startNodeRef = 0
    /\ parentNodeRef = 0
    /\ fpc = "idle"

\* no geometry library is being read
NoGeometry ==
    /\ geometries = <<>>
    /\ gpos = 1
    /\ mMeshLibrary = EmptyMap

\* no buffer has been created
NoBuffer ==
    /\ mData = <<>>
    /\ byteLength = 0
    /\ outside = FALSE
    /\ calls = 0

\* no scene is being exported
NoExport ==
    /\ mScene = <<>>
    /\ mFilename = ""
    /\ epc = "idle"

Init == doc \in Documents /\ InitAsset /\ NoCollada /\ NoSkin
        /\ NoGeometry /\ NoBuffer /\ NoExport

\* the caller is between two calls
Idle == pc \in {"idle", "rejected", "failed", "done"} /\ ~crashed

Created == Len(hist)

\* ------------------------------------------------------------------------
\* Inputs of the calls
\* ------------------------------------------------------------------------
MaxIds == 3

MaxRepeat == 2

Indices == 0 .. MaxIndex

CreateDicts == {"meshes", "cameras"}

CallDicts == {"nodes", "meshes", "cameras", "lights"}

QueryDicts == {"meshes", "cameras", "lights"}

CreateIds == {"foo", "nodes_0"}

QueryIds == {"foo", "meshes_1", "cameras_0"}

RECURSIVE Rep(_, _)

\* the string of n characters c
Rep(c, n) ==
    IF n = 0 THEN ""
    ELSE IF n % 2 = 1 THEN c \o Rep(c, n - 1)
    ELSE LET h == Rep(c, n \div 2) IN h \o h

\* names of 249, 250 and 252 characters: with the suffix "mesh" the second
\* candidate of FindUniqueID has 254, 255 and 257 characters
LongNames == {Rep("x", BufferSize - 7), Rep("x", BufferSize - 6), Rep("x", BufferSize - 4)}

Bases == {"", "mesh"} \cup LongNames

Suffixes == {"mesh"}

IdPool == {"mesh", "mesh_mesh", "mesh_0"}

UniqueDicts == {"meshes"}

\* ------------------------------------------------------------------------
\* Asset::Load, in its three parts; the caller gets control back after the
\* last one or when one of them throws
\* ------------------------------------------------------------------------
\* asset.Read(doc); ... AttachToDocument(doc) for every dictionary
LoadAttach ==
    /\ pc = "idle" /\ ~crashed
    /\ LET e == AssetMetadataRead(doc)
       IN IF e # ""
          THEN /\ pc' = "rejected"
               /\ Becomes(Cur)
               /\ ret' = Ret("LoadAttach", "", 0, "", "", "", NullRef, e, 1)
          ELSE /\ pc' = "attached"
               /\ Becomes([AttachAll(Cur, DictIds, doc) EXCEPT !.docAlive = TRUE])
               /\ ret' = Ret("LoadAttach", "", 0, "", "", "", NullRef, "", 1)
    /\ UNCHANGED <<doc, hist, crashed, colladaVars, skinVars, otherVars>>

\* the "scene" property and everything it references; a throw leaves Load,
\* and the Document, a local of Load, is destroyed
LoadScene ==
    /\ pc = "attached" /\ ~crashed
    /\ \E ub \in UBOutcomes :
         \E r \in {LoadSceneProperty(Cur, doc, ub)} :
            /\ Becomes(IF r.crash THEN r.a
                       ELSE IF Failed(r) THEN [r.a EXCEPT !.docAlive = FALSE]
                       ELSE r.a)
            /\ pc' = IF r.crash THEN pc ELSE IF Failed(r) THEN "failed" ELSE "resolved"
            /\ crashed' = r.crash
            /\ ret' = Ret("LoadScene", "", 0, "", "", "", r.ref, r.err, 1)
    /\ UNCHANGED <<doc, hist, colladaVars, skinVars, otherVars>>

\* DetachFromDocument() for every dictionary, and the return of Load
LoadDetach ==
    /\ pc = "resolved" /\ ~crashed
    /\ pc' = "done"
    /\ Becomes([DetachAll(Cur, DictIds) EXCEPT !.docAlive = FALSE])
    /\ ret' = Ret("LoadDetach", "", 0, "", "", "", NullRef, "", 1)
    /\ UNCHANGED <<doc, hist, crashed, colladaVars, skinVars, otherVars>>

\* ------------------------------------------------------------------------
\* The calls of a user of the asset
\* ------------------------------------------------------------------------
DoRetrieve(d, i) ==
    /\ Idle
    /\ \E ub \in UBOutcomes :
         \E r \in {Retrieve(Cur, d, i, 0, ub)} :
            /\ r.a.nextAddr > nextAddr => nextAddr <= MaxAlloc
            /\ Becomes(r.a)
            /\ crashed' = r.crash
            /\ ret' = Ret("Retrieve", d, i, "", "", "", r.ref, r.err, 1)
    /\ UNCHANGED <<doc, pc, hist, colladaVars, skinVars, otherVars>>

DoGet(d, i) ==
    /\ Idle
    /\ LET r == Get(Cur, d, i)
       IN /\ Becomes(r.a)
          /\ ret' = Ret("Get", d, i, "", "", "", r.ref, r.err, 1)
    /\ UNCHANGED <<doc, pc, hist, crashed, colladaVars, skinVars, otherVars>>

DoGetById(d, id) ==
    /\ Idle
    /\ LET r == GetById(Cur, d, id)
       IN /\ Becomes(r.a)
          /\ ret' = Ret("GetById", d, 0, id, "", "", r.ref, r.err, 1)
    /\ UNCHANGED <<doc, pc, hist, crashed, colladaVars, skinVars, otherVars>>

DoCreate(d, id, cap) ==
    /\ Idle
    /\ Created < cap
    /\ LET r == Create(Cur, d, id)
       IN /\ Becomes(r.a)
          /\ ret' = Ret("Create", d, 0, id, "", "", r.ref, r.err, 1)
          /\ hist' = IF Failed(r) THEN hist
                     ELSE Append(hist, [d |-> d, id |-> id, str |-> "", suffix |-> "",
                                        via |-> "Create"])
    /\ UNCHANGED <<doc, pc, crashed, colladaVars, skinVars, otherVars>>

DoFindUniqueID(str, suffix) ==
    /\ Idle
    /\ \E ub \in UBOutcomes :
         LET f == FindUniqueID(Cur, str, suffix, ub)
             again == ret.op = "FindUniqueID" /\ ret.str = str /\ ret.suffix = suffix
         IN /\ Becomes(f.a)
            /\ crashed' = f.crash
            /\ ret' = Ret("FindUniqueID", "", 0, f.id, str, suffix, NullRef, f.err,
                          IF ~again THEN 1
                          ELSE IF ret.rep < MaxRepeat THEN ret.rep + 1 ELSE MaxRepeat)
    /\ UNCHANGED <<doc, pc, hist, colladaVars, skinVars, otherVars>>

\* std::string id = FindUniqueID(name, suffix); Ref<T> r = dict.Create(id);
DoCreateUnique(d, str, suffix, cap) ==
    /\ Idle
    /\ Created < cap
    /\ \E ub \in UBOutcomes :
         LET f == FindUniqueID(Cur, str, suffix, ub)
             r == Create(f.a, d, f.id)
         IN IF f.crash
            THEN /\ Becomes(f.a)
                 /\ crashed' = TRUE
                 /\ ret' = Ret("CreateUnique", d, 0, "", str, suffix, NullRef, f.err, 1)
                 /\ hist' = hist
            ELSE /\ Becomes(r.a)
                 /\ crashed' = FALSE
                 /\ ret' = Ret("CreateUnique", d, 0, f.id, str, suffix, r.ref, r.err, 1)
                 /\ hist' = IF Failed(r) THEN hist
                            ELSE Append(hist, [d |-> d, id |-> f.id, str |-> str,
                                               suffix |-> suffix, via |-> "CreateUnique"])
    /\ UNCHANGED <<doc, pc, colladaVars, skinVars, otherVars>>

\* ------------------------------------------------------------------------
\* Specifications
\* ------------------------------------------------------------------------
\* an asset that is loaded from a document and used through its dictionaries
Next ==
    \/ LoadAttach
    \/ LoadScene
    \/ LoadDetach
    \/ \E d \in CallDicts, i \in Indices : DoRetrieve(d, i)
    \/ \E d \in QueryDicts, i \in Indices : DoGet(d, i)
    \/ \E d \in QueryDicts, id \in QueryIds : DoGetById(d, id)
    \/ \E d \in CreateDicts, id \in CreateIds : DoCreate(d, id, MaxCreate)

Spec == Init /\ [][Next]_vars

\* an asset that an exporter fills: no document, ids from the allocator
InitIds == doc = Obj(NoMembers) /\ InitAsset /\ NoCollada /\ NoSkin
           /\ NoGeometry /\ NoBuffer /\ NoExport

NextIds ==
    \/ \E str \in Bases, suffix \in Suffixes : DoFindUniqueID(str, suffix)
    \/ \E d \in UniqueDicts, str \in Bases, suffix \in Suffixes :
          DoCreateUnique(d, str, suffix, MaxIds)
    \/ \E d \in UniqueDicts, id \in IdPool : DoCreate(d, id, MaxIds)

SpecIds == InitIds /\ [][NextIds]_vars

\* ------------------------------------------------------------------------
\* Documents of a family: MaxNodes nodes, each with children among the later
\* nodes, at most one mesh and at most one camera; two meshes, the first with
\* a material; one scene, declared by the "scene" member or not
\* ------------------------------------------------------------------------
MaxNodes == 2

NodeIds == 0 .. MaxNodes - 1

RECURSIVE UInts(_)

\* the members of a set of indices, in increasing order, as JSON numbers
UInts(S) ==
    IF S = {} THEN <<>>
    ELSE LET m == CHOOSE x \in S : \A y \in S : x <= y
         IN <<UInt(m)>> \o UInts(S \ {m})

NodeShape ==
    {n \in [children : SUBSET NodeIds, hasMesh : BOOLEAN, mesh : {0, 1}, camera : BOOLEAN] :
        ~n.hasMesh => n.mesh = 0}

NodeShapes == {f \in [NodeIds -> NodeShape] : \A n \in NodeIds : \A c \in f[n].children : c > n}

GenNode(shape) ==
    Obj(Opt("children", shape.children # {}, Arr(UInts(shape.children)))
        @@ Opt("mesh", shape.hasMesh, UInt(shape.mesh))
        @@ Opt("camera", shape.camera, UInt(0)))

GenDoc(f, roots, declared) ==
    Obj(AssetV2
        @@ Opt("scene", declared, UInt(0))
        @@ "scenes" :> Arr(<<Obj("nodes" :> Arr(UInts(roots)))>>)
        @@ "nodes" :> Arr([k \in 1 .. MaxNodes |-> GenNode(f[k - 1])])
        @@ "meshes" :> Arr(<<Obj("primitives" :> Arr(<<Obj("material" :> UInt(0))>>)),
                             Obj("name" :> Str("m1"))>>)
        @@ "materials" :> Arr(<<Obj(NoMembers)>>)
        @@ "cameras" :> Arr(<<PerspectiveCamera>>))

GenDocs == {GenDoc(f, roots, declared) :
               f \in NodeShapes, roots \in SUBSET NodeIds, declared \in BOOLEAN}

\* Asset::Load on a document of the family or on one of the named documents
InitLoad == doc \in GenDocs \cup Documents /\ InitAsset /\ NoCollada /\ NoSkin
            /\ NoGeometry /\ NoBuffer /\ NoExport

NextLoad ==
    \/ LoadAttach
    \/ LoadScene
    \/ LoadDetach

SpecLoad == InitLoad /\ [][NextLoad]_vars

\* ------------------------------------------------------------------------
\* Properties
\* ------------------------------------------------------------------------
\* every object of every dictionary, as <<dictionary, position>>
Objects == {<<d, k>> : d \in DictIds, k \in 1 .. MaxAlloc + MaxCreate + MaxIds} \cap
           {e \in DictIds \X (1 .. MaxAlloc + MaxCreate + MaxIds) : e[2] <= Len(mObjs[e[1]])}

\* C1: on an asset used only through Retrieve and Get, every Retrieve(i)
\* that returns gives the handle the first Retrieve(i) gave, the handle
\* dereferences to the object built then, the index cache keeps naming that
\* object, and the object for entry i was constructed exactly once.
C1_RetrieveStable ==
    Created = 0 =>
      /\ \A e \in DOMAIN firstRet :
            /\ MapHas(mObjsByOIndex[e[1]], e[2])
            /\ mObjsByOIndex[e[1]][e[2]] = firstRet[e].ref.index
            /\ Deref(Cur, firstRet[e].ref).addr = firstRet[e].addr
            /\ Deref(Cur, firstRet[e].ref).oIndex = e[2]
            /\ newCount[e] = 1
      /\ (ret.op = "Retrieve" /\ ret.err = "") =>
            /\ MapHas(firstRet, <<ret.d, ret.i>>)
            /\ ret.ref = firstRet[<<ret.d, ret.i>>].ref
            /\ CanDeref(Cur, ret.ref)
            /\ Deref(Cur, ret.ref).addr = firstRet[<<ret.d, ret.i>>].addr

\* a Retrieve of the user returns the object that Load has built, and the
\* document has an entry that two nodes reference
C1_Witness ==
    /\ ret.op = "Retrieve" /\ ret.err = "" /\ Created = 0
    /\ pc = "done" /\ doc = DocDiamond
    /\ ret.d = "meshes" /\ ret.i = 0
    /\ newCount[<<"meshes", 0>>] = 1

\* C2: no two objects held in the dictionaries of the asset have the same id.
C2_UniqueIds ==
    \A e1, e2 \in Objects :
        e1 # e2 => mObjs[e1[1]][e1[2]].id # mObjs[e2[1]][e2[2]].id

\* C3: Create(id) with a registered id throws the duplicate-id error and
\* leaves the registry, the object lists and the caches as they were;
\* Create(id) with an unregistered id returns a handle to a new object with
\* that id and registers the id.
C3_CreateStep ==
    ret'.op = "Create" =>
        IF MapHas(mUsedIds, ret'.id)
        THEN /\ ret'.err = ErrDuplicateId
             /\ ~IsSet(ret'.ref)
             /\ UNCHANGED <<mUsedIds, mObjs, mObjsByOIndex, mObjsById>>
        ELSE /\ ret'.err = ""
             /\ MapHas(mUsedIds', ret'.id)
             /\ CanDeref(Cur', ret'.ref)
             /\ Deref(Cur', ret'.ref).id = ret'.id
             /\ Len(mObjs'[ret'.d]) = Len(mObjs[ret'.d]) + 1

C3_Create == [][C3_CreateStep]_vars

\* the second Create("foo"), on another dictionary than the first, has failed
C3_Witness ==
    /\ ret.op = "Create" /\ ret.id = "foo" /\ ret.err = ErrDuplicateId
    /\ Len(hist) = 1 /\ hist[1].id = "foo" /\ hist[1].d # ret.d
    /\ MapHas(mUsedIds, "foo")

C4_GetStep ==
    ret'.op = "Get" =>
        /\ UNCHANGED assetVars
        /\ ret'.err = ""
        /\ IsSet(ret'.ref)
        /\ ret'.ref = Ref(ret'.d, ret'.i)
        /\ (doc = DocScenario /\ pc = "done" /\ Created = 0
              /\ ret'.d = "meshes" /\ ret'.i = 0) =>
                 /\ CanDeref(Cur, ret'.ref)
                 /\ Deref(Cur, ret'.ref).oIndex = 1
                 /\ Deref(Cur, ret'.ref).name = "m1"

Entries(v) ==
    {e \in DictIds \X (0 .. MaxNodes + MaxIndex) :
        /\ ExtId(e[1]) = ""
        /\ HasMember(v, e[1]) /\ IsArray(v.m[e[1]])
        /\ e[2] < Len(v.m[e[1]].e)}

\* the numbers of a JSON array, as entries of dictionary d
Named(d, array) == {<<d, array.e[k].v>> : k \in {j \in DOMAIN array.e : IsUint(array.e[j])}}

\* the entries that the entry e of the document names
RefsOf(v, e) ==
    LET o == v.m[e[1]].e[e[2] + 1]
        has(k, t) == IsObject(o) /\ k \in DOMAIN o.m /\ o.m[k].t = t
    IN CASE e[1] = "scenes" -> IF has("nodes", "arr") THEN Named("nodes", o.m["nodes"]) ELSE {}
         [] e[1] = "nodes" ->
              (IF has("children", "arr") THEN Named("nodes", o.m["children"]) ELSE {})
              \cup (IF has("mesh", "uint") THEN {<<"meshes", o.m["mesh"].v>>} ELSE {})
              \cup (IF has("camera", "uint") THEN {<<"cameras", o.m["camera"].v>>} ELSE {})
         [] e[1] = "meshes" ->
              IF has("primitives", "arr")
              THEN UNION {IF IsObject(q) /\ "material" \in DOMAIN q.m /\ IsUint(q.m["material"])
                          THEN {<<"materials", q.m["material"].v>>} ELSE {} :
                          q \in {o.m["primitives"].e[k] : k \in DOMAIN o.m["primitives"].e}}
              ELSE {}
         [] OTHER -> {}

RECURSIVE Closure(_, _)

\* S and everything that can be reached from it along references to entries
Closure(v, S) ==
    LET T == S \cup UNION {RefsOf(v, e) : e \in S \cap Entries(v)}
    IN IF T = S THEN S ELSE Closure(v, T)

DeclaredScene(v) ==
    IF "scene" \in DOMAIN v.m /\ IsUint(v.m["scene"]) THEN {<<"scenes", v.m["scene"].v>>} ELSE {}

Reachable(v) == Closure(v, DeclaredScene(v))

\* every reference names an entry, every entry is an object, the cameras have
\* their parameters, the version is 2.x
WellFormed(v) ==
    /\ AssetMetadataRead(v) = ""
    /\ \A d \in DictIds : ExtId(d) = "" /\ HasMember(v, d) => IsArray(v.m[d])
    /\ DeclaredScene(v) \subseteq Entries(v)
    /\ \A e \in Entries(v) :
          /\ IsObject(v.m[e[1]].e[e[2] + 1])
          /\ RefsOf(v, e) \subseteq Entries(v)
          /\ e[1] = "cameras" => ~IsNull(FindObject(v.m[e[1]].e[e[2] + 1], "perspective"))

Acyclic(v) == \A e \in Entries(v) : e \notin Closure(v, RefsOf(v, e))

\* C5: on a well-formed document without a cycle of references Load does
\* not fail, and once the scene is resolved every entry that can be reached
\* from the declared scene has been constructed exactly once and is in its
\* dictionary, and no other entry has been constructed; with no declared
\* scene nothing has been constructed.
C5_LoadConstructs ==
    (WellFormed(doc) /\ Acyclic(doc)) =>
        /\ ~crashed /\ pc \notin {"rejected", "failed"}
        /\ pc \in {"resolved", "done"} =>
              /\ DOMAIN newCount = Reachable(doc)
              /\ \A e \in Reachable(doc) :
                    /\ newCount[e] = 1
                    /\ MapHas(mObjsByOIndex[e[1]], e[2])
              /\ \A d \in DictIds :
                    Len(mObjs[d]) = Cardinality({e \in Reachable(doc) : e[1] = d})
              /\ DeclaredScene(doc) = {} => nextAddr = 1

\* the load of a document of the family is over: a mesh that two nodes name
\* and a node that the scene and another node name were constructed once,
\* the mesh that nothing names was not
C5_Witness ==
    /\ pc = "done" /\ doc \in GenDocs /\ WellFormed(doc) /\ Acyclic(doc)
    /\ DeclaredScene(doc) = {<<"scenes", 0>>}
    /\ RefsOf(doc, <<"scenes", 0>>) = {<<"nodes", 0>>, <<"nodes", 1>>}
    /\ <<"nodes", 1>> \in RefsOf(doc, <<"nodes", 0>>)
    /\ <<"meshes", 0>> \in RefsOf(doc, <<"nodes", 0>>) \cap RefsOf(doc, <<"nodes", 1>>)
    /\ newCount[<<"meshes", 0>>] = 1 /\ newCount[<<"nodes", 1>>] = 1
    /\ newCount[<<"materials", 0>>] = 1
    /\ ~MapHas(newCount, <<"meshes", 1>>)

\* C6: an id that FindUniqueID returns is not a key of the registry of ids
\* in use (FindUniqueID does not change the registry, so the registry of the
\* state after the call is the registry of the call).
C6_NeverRegistered ==
    (ret.op = "FindUniqueID" /\ ret.err = "") => ~MapHas(mUsedIds, ret.id)

\* the base and the candidate with the suffix are registered, the call has
\* returned a numbered id
C6_Witness ==
    /\ ret.op = "FindUniqueID" /\ ret.err = "" /\ ret.str = "mesh"
    /\ MapHas(mUsedIds, "mesh") /\ MapHas(mUsedIds, "mesh_mesh")
    /\ ret.id = "mesh_mesh_0"

\* the id that the described algorithm gives on registry reg
Described(reg, base, suffix) ==
    LET c == IF base = "" THEN suffix ELSE base \o "_" \o suffix
        k == CHOOSE n \in 0 .. Cardinality(reg) :
                 /\ c \o "_" \o ToString(n) \notin reg
                 /\ \A j \in 0 .. n - 1 : c \o "_" \o ToString(j) \in reg
    IN IF base # "" /\ base \notin reg THEN base
       ELSE IF c \notin reg THEN c
       ELSE c \o "_" \o ToString(k)

\* C7 as claimed: FindUniqueID(base, suffix) returns base when base is not
\* empty and not registered, else the candidate c = base_suffix (suffix when
\* base is empty) when c is not registered, else c_k for the smallest k >= 0
\* that makes an unregistered id.
C7_Algorithm ==
    ret.op = "FindUniqueID" =>
        /\ ret.err = ""
        /\ ret.id = Described(DOMAIN mUsedIds, ret.str, ret.suffix)

\* the ids that repeated FindUniqueID("mesh", "mesh"), each registered before
\* the next call, gives according to the claim
C8_Claimed(k) == IF k = 1 THEN "mesh" ELSE "mesh_" \o ToString(k - 2)

\* the asset was filled by FindUniqueID("mesh", "mesh") and Create alone
MeshRun == \A k \in DOMAIN hist :
               hist[k].via = "CreateUnique" /\ hist[k].str = "mesh" /\ hist[k].suffix = "mesh"

\* C8 as claimed: the ids are "mesh", "mesh_0", "mesh_1".
C8_MeshSequence == MeshRun => \A k \in DOMAIN hist : hist[k].id = C8_Claimed(k)

C8_Expected(k) ==
    IF k = 1 THEN "mesh"
    ELSE IF k = 2 THEN "mesh_mesh"
    ELSE "mesh_mesh_" \o ToString(k - 3)

\* C8 as amended: from an empty registry, FindUniqueID("mesh", "mesh") with
\* each returned id registered before the next call gives "mesh", then
\* "mesh_mesh", then "mesh_mesh_0", "mesh_mesh_1", ...; each id differs from
\* all the ids returned before it.
C8_MeshMeshSequence ==
    MeshRun =>
        /\ \A k \in DOMAIN hist : hist[k].id = C8_Expected(k)
        /\ \A j, k \in DOMAIN hist : j # k => hist[j].id # hist[k].id
        /\ (ret.op = "FindUniqueID" /\ ret.str = "mesh" /\ ret.suffix = "mesh") =>
               ret.err = "" /\ ret.id = C8_Expected(Len(hist) + 1)

\* three ids were allocated and registered in a row
C8_Witness ==
    /\ MeshRun /\ Len(hist) = 3
    /\ hist[3].id = "mesh_mesh_0"
    /\ DOMAIN mUsedIds = {"mesh", "mesh_mesh", "mesh_mesh_0"}

\* C9: a call of FindUniqueID leaves the registry, the dictionaries and the
\* rest of the asset as they were, and a call that repeats the call before
\* it, with nothing between the two, returns the id that call returned.
C9_PureStep ==
    ret'.op = "FindUniqueID" =>
        /\ UNCHANGED assetVars
        /\ UNCHANGED hist
        /\ (ret'.rep > 1 /\ ret.err = "" /\ ret'.err = "") => ret'.id = ret.id

C9_Pure == [][C9_PureStep]_vars

\* the second of two equal calls on a registry that holds the base
C9_Witness ==
    /\ ret.op = "FindUniqueID" /\ ret.rep >= 2 /\ ret.err = ""
    /\ ret.str = "mesh" /\ MapHas(mUsedIds, "mesh")
    /\ ret.id = "mesh_mesh"

\* the document has no member for the section of dictionary d: for a
\* dictionary of an extension, no "extensions" member, or no member for the
\* extension in it, or no member for the section in the extension
Lacking(v, d) ==
    IF ExtId(d) = "" THEN d \notin DOMAIN v.m
    ELSE \/ "extensions" \notin DOMAIN v.m
         \/ ExtId(d) \notin DOMAIN v.m["extensions"].m
         \/ d \notin DOMAIN v.m["extensions"].m[ExtId(d)].m

\* C10: attaching the dictionaries to a document raises no error whatever
\* sections the document lacks; a dictionary whose section is lacking has no
\* section pointer and no object, Get by id on it returns the null handle,
\* and Retrieve(i) on it, from Load or from the user, for every i, fails with
\* the missing-section error and constructs nothing (the dictionary being
\* filled by Retrieve alone).
C10_MissingSection ==
    /\ (ret.op = "LoadAttach" /\ AssetMetadataRead(doc) = "") =>
          /\ ret.err = "" /\ pc = "attached"
          /\ \A d \in DictIds : Lacking(doc, d) => IsNull(mDict[d])
    /\ \A d \in DictIds :
          (Lacking(doc, d) /\ Created = 0) =>
             /\ IsNull(mDict[d])
             /\ mObjs[d] = <<>> /\ mObjsById[d] = EmptyMap /\ mObjsByOIndex[d] = EmptyMap
             /\ \A e \in DOMAIN newCount : e[1] # d
             /\ (ret.op = "GetById" /\ ret.d = d) => (ret.err = "" /\ ret.ref = NullRef)
             /\ (ret.op = "Retrieve" /\ ret.d = d) =>
                    (ret.err = ErrMissingSection(d) /\ ret.ref = NullRef /\ ~crashed)
    /\ (ret.op = "LoadScene" /\ doc = DocNoCameras /\ Created = 0) =>
          (ret.err = ErrMissingSection("cameras") /\ pc = "failed")

\* the load has failed on the camera of a document without cameras, the
\* sections that exist are still attached, and a Retrieve(1) on the lights,
\* whose extension the document does not have, has failed
C10_Witness ==
    /\ doc = DocNoCameras /\ pc = "failed" /\ Created = 0
    /\ ~IsNull(mDict["nodes"])
    /\ Lacking(doc, "lights") /\ Lacking(doc, "cameras")
    /\ ret.op = "Retrieve" /\ ret.d = "lights" /\ ret.i = 1
    /\ ret.err = ErrMissingSection("lights")

\* ------------------------------------------------------------------------
\* ColladaParser::PostProcessControllers
\* ------------------------------------------------------------------------

MaxControllers == 3

ControllerId(n) == "C" \o ToString(n)

ControllerIds == {ControllerId(n) : n \in 1..MaxControllers}

\* what a controller's source attribute may hold: the id of a controller,
\* the id of a mesh, or an id with the '#' of the url left in place
SourceIds == ControllerIds \cup {"M", "#C1"}

\* the keys of a std::map come in key order
KeysInOrder(ns) ==
    LET In(n) == n \in ns
        ids == [n \in 1..MaxControllers |-> n]
        sel == SelectSeq(ids, In)
    IN [k \in 1..Len(sel) |-> ControllerId(sel[k])]

Libraries(ns) == [{ControllerId(n) : n \in ns} -> SourceIds]

\* mControllerLibrary.find(meshId) != mControllerLibrary.end(), with find
\* giving up at once
FindNever(lib, id) == FALSE

\* mControllerLibrary.find(meshId) != mControllerLibrary.end()
Found(lib, id) == MapHas(lib, id)

\* the head of the for loop: the next controller of the library, if any
PPFor ==
    /\ ppc = "for"
    /\ IF it > Len(keyOrder)
       THEN /\ ppc' = "done"
            /\ UNCHANGED meshId
       ELSE /\ meshId' = mControllerLibrary[keyOrder[it]]
            /\ ppc' = "while"
    /\ UNCHANGED <<controllers, mControllerLibrary, keyOrder, it,
                   sections, pos, mNodeLibrary, mRootNode, thrown>>
    /\ UNCHANGED <<doc, pc, assetVars, hist, ret, crashed, skinVars, otherVars>>

\* one test of the while loop: its body, or the assignment after the loop
\* and the ++it of the for loop
PPWhile ==
    /\ ppc = "while"
    /\ IF Found(mControllerLibrary, meshId)
       THEN /\ meshId' = mControllerLibrary[meshId]
            /\ UNCHANGED <<mControllerLibrary, it, ppc>>
       ELSE /\ mControllerLibrary' = MapPut(mControllerLibrary, keyOrder[it], meshId)
            /\ it' = it + 1
            /\ ppc' = "for"
            /\ UNCHANGED meshId
    /\ UNCHANGED <<controllers, keyOrder, sections, pos, mNodeLibrary,
                   mRootNode, thrown>>
    /\ UNCHANGED <<doc, pc, assetVars, hist, ret, crashed, skinVars, otherVars>>

\* PostProcessControllers is entered with a library of controllers
InitControllers ==
    /\ doc = Obj(NoMembers)
    /\ InitAsset
    /\ NoSkin /\ NoGeometry /\ NoBuffer /\ NoExport
    /\ \E ns \in SUBSET (1..MaxControllers) :
          /\ controllers \in Libraries(ns)
          /\ keyOrder = KeysInOrder(ns)
    /\ mControllerLibrary = controllers
    /\ it = 1
    /\ meshId = ""
    /\ ppc = "for"
    /\ sections = <<>>
    /\ pos = 1
    /\ mNodeLibrary = {}
    /\ mRootNode = <<>>
    /\ thrown = ""

NextControllers == PPFor \/ PPWhile

\* the loop is a sequential program: it keeps running while it can
SpecControllers ==
    InitControllers /\ [][NextControllers]_vars /\ WF_vars(NextControllers)

\* the id reached from id by following mMeshId through at most n controllers
RECURSIVE ChainEnd(_, _, _)
ChainEnd(lib, id, n) ==
    IF n = 0 \/ ~MapHas(lib, id) THEN id ELSE ChainEnd(lib, lib[id], n - 1)

\* every chain of the library leaves the library
AcyclicLibrary(lib) ==
    \A c \in DOMAIN lib : ~MapHas(lib, ChainEnd(lib, c, Cardinality(DOMAIN lib)))

\* the first id of c's chain that is not a key of the library
TerminalId(lib, c) == ChainEnd(lib, c, Cardinality(DOMAIN lib))

\* the library in which C1's mesh id names C2 and C2's names C1
CyclicPair == [c \in {"C1", "C2"} |-> IF c = "C1" THEN "C2" ELSE "C1"]

C12_TerminalIds ==
    (ppc = "done" /\ AcyclicLibrary(controllers)) =>
        /\ DOMAIN mControllerLibrary = DOMAIN controllers
        /\ \A c \in DOMAIN controllers :
              mControllerLibrary[c] = TerminalId(controllers, c)

\* the chain C1 -> C2 -> M has been resolved to M for both controllers
C12_Witness ==
    /\ ppc = "done"
    /\ controllers = [c \in {"C1", "C2"} |-> IF c = "C1" THEN "C2" ELSE "M"]
    /\ mControllerLibrary = [c \in {"C1", "C2"} |-> "M"]

\* ------------------------------------------------------------------------
\* FindSkeletonRootJoint of the exporter
\* ------------------------------------------------------------------------

MaxJoints == 4

\* handles to the nodes of the exported asset; 0 is the null handle
NodeRefs == 1..MaxJoints

\* ExportNode creates a node after its parent: a tree, the root without parent
NodeTrees == {p \in [NodeRefs -> 0..MaxJoints] : \A n \in NodeRefs : p[n] < n}

JointNameSets == [NodeRefs -> {"", "joint"}]

\* the joints of a skin, the first of them where the search starts
JointLists == [1..1 -> NodeRefs] \cup [1..2 -> NodeRefs]

\* !parentNodeRef->jointName.empty(), with every name taken for empty
NeverNamed(n) == FALSE

\* !parentNodeRef->jointName.empty()
HasJointName(n) == jointName[n] # ""

\* the two assignments before the loop
FSRBegin ==
    /\ fpc = "call"
    /\ startNodeRef' = jointNames[1]
    /\ parentNodeRef' = jointNames[1]
    /\ fpc' = "do"
    /\ UNCHANGED <<parent, jointName, jointNames>>
    /\ UNCHANGED <<doc, pc, assetVars, hist, ret, crashed, colladaVars, otherVars>>

\* one round of the do-while loop and its test; the test of a null handle
\* reads through a null pointer, which ends the process or reads as an
\* empty name
FSRDo ==
    /\ fpc = "do"
    /\ startNodeRef' = parentNodeRef
    /\ parentNodeRef' = parent[parentNodeRef]
    /\ IF parent[parentNodeRef] = 0
       THEN \E ub \in UBOutcomes :
               fpc' = IF ub = "dies" THEN "crashed" ELSE "done"
       ELSE fpc' = IF HasJointName(parent[parentNodeRef]) THEN "do" ELSE "done"
    /\ UNCHANGED <<parent, jointName, jointNames>>
    /\ UNCHANGED <<doc, pc, assetVars, hist, ret, crashed, colladaVars, otherVars>>

\* FindSkeletonRootJoint is called for a skin of a tree of nodes
InitSkin ==
    /\ doc = Obj(NoMembers)
    /\ InitAsset
    /\ NoCollada /\ NoGeometry /\ NoBuffer /\ NoExport
    /\ parent \in NodeTrees
    /\ jointName \in JointNameSets
    /\ jointNames \in JointLists
    /\ startNodeRef = 0
    /\ parentNodeRef = 0
    /\ fpc = "call"

NextSkin == FSRBegin \/ FSRDo

SpecSkin == InitSkin /\ [][NextSkin]_vars

\* the strict ancestors of node n
RECURSIVE StrictAncestors(_)
StrictAncestors(n) ==
    IF parent[n] = 0 THEN {} ELSE {parent[n]} \cup StrictAncestors(parent[n])

\* the strict ancestors of the skin's first joint that have no joint name
UnnamedAncestors == {a \in StrictAncestors(jointNames[1]) : jointName[a] = ""}

\* C13: when the skin's first joint has a strict ancestor without joint
\* name, FindSkeletonRootJoint returns the nearest one: the one below which
\* no other such ancestor lies
C13_NearestUnnamedAncestor ==
    (fpc \in {"done", "crashed"} /\ UnnamedAncestors # {}) =>
        /\ fpc = "done"
        /\ parentNodeRef \in UnnamedAncestors
        /\ \A b \in UnnamedAncestors :
              b = parentNodeRef \/ b \in StrictAncestors(parentNodeRef)

\* J3 -> J2 -> J1 -> R with only R unnamed: the search from J3 has returned R
C13_Witness ==
    /\ fpc = "done"
    /\ parent = <<0, 1, 2, 3>>
    /\ jointName = <<"", "joint", "joint", "joint">>
    /\ jointNames[1] = 4
    /\ parentNodeRef = 1

\* ------------------------------------------------------------------------
\* Errors of Retrieve and of Asset::Load
\* ------------------------------------------------------------------------

\* C14: the load of a document whose node names mesh 2 of a one-element
\* array fails, without ending the process, with an error that is not the
\* not-an-object error; the load of a document whose mesh entry is a string
\* fails with the not-an-object error; neither constructs a mesh
C14_IndexErrors ==
    (ret.op = "LoadScene" /\ Created = 0) =>
        /\ doc = DocOutOfRange =>
              /\ ~crashed
              /\ ret.err \notin {"", ErrNotObject(2)}
              /\ mObjs["meshes"] = <<>>
        /\ doc = DocNotObject =>
              /\ ~crashed
              /\ ret.err = ErrNotObject(0)
              /\ mObjs["meshes"] = <<>>

\* C15: the load of a document whose "meshes" member is an object, not an
\* array, fails at the node's mesh with an error that is not the
\* missing-section error
C15_MalformedSection ==
    (ret.op = "LoadScene" /\ doc = DocNotArray /\ Created = 0) =>
        /\ ~crashed
        /\ ret.err \notin {"", ErrMissingSection("meshes")}

\* C16: the load of a document whose two nodes name each other as child
\* ends with an error, without ending the process, and constructs no entry
\* a second time
C16_ReentrantRetrieve ==
    (ret.op = "LoadScene" /\ doc = DocCycle /\ Created = 0) =>
        /\ ~crashed
        /\ ret.err # ""
        /\ \A e \in DOMAIN newCount : newCount[e] <= 1

\* C17: Get(id) changes nothing of the asset, constructs nothing and raises
\* no error; it returns the null handle exactly when the dictionary has no
\* object registered under the id, and otherwise a handle that dereferences
\* to the object registered under it. The object still carries the id,
\* except a camera, whose id the node referencing it may have overwritten.
C17_GetByIdStep ==
    ret'.op = "GetById" =>
        /\ UNCHANGED assetVars
        /\ ~crashed'
        /\ ret'.err = ""
        /\ IF MapHas(mObjsById[ret'.d], ret'.id)
           THEN /\ ret'.ref = Ref(ret'.d, mObjsById[ret'.d][ret'.id])
                /\ CanDeref(Cur, ret'.ref)
                /\ ret'.d # "cameras" => Deref(Cur, ret'.ref).id = ret'.id
           ELSE /\ ret'.ref = NullRef
                /\ ret'.d # "cameras" =>
                      \A k \in 1..Len(mObjs[ret'.d]) : mObjs[ret'.d][k].id # ret'.id

C17_GetById == [][C17_GetByIdStep]_vars

\* Get("meshes_1") after the load of the document whose scene references
\* mesh 1 has returned a handle to that mesh
C17_Witness ==
    /\ ret.op = "GetById" /\ ret.d = "meshes" /\ ret.id = "meshes_1"
    /\ doc = DocScenario /\ pc = "done" /\ Created = 0
    /\ CanDeref(Cur, ret.ref)
    /\ Deref(Cur, ret.ref).oIndex = 1

\* C18: when Asset::Load has ended with an error, the scene handle is unset
\* and no object of the failed load is left in a dictionary, in a cache or
\* among the ids in use
C18_AllOrNothing ==
    (ret.op = "LoadScene" /\ pc = "failed" /\ Created = 0) =>
        /\ ~IsSet(scene)
        /\ \A d \in DictIds :
              /\ mObjs[d] = <<>>
              /\ mObjsByOIndex[d] = EmptyMap
              /\ mObjsById[d] = EmptyMap
        /\ mUsedIds = EmptyMap

\* ------------------------------------------------------------------------
\* ColladaParser::ReadStructure
\* ------------------------------------------------------------------------

MaxSections == 3

\* ids of visual scenes, as sequences of characters
SceneIds == {<<"S">>, <<"T">>}

\* url attributes of <instance_visual_scene>
Urls == {<<"#", "S">>, <<"#", "T">>, <<"S">>}

\* a child element of the <COLLADA> element: its name, the ids of the
\* <visual_scene> children of a library, the url of the
\* <instance_visual_scene> child of a <scene>
Element(name, ids, url) == [name |-> name, ids |-> ids, url |-> url]

Elements ==
    {Element("library_visual_scenes", ids, <<>>) : ids \in (SUBSET SceneIds) \ {{}}}
    \cup {Element("scene", {}, url) : url \in Urls}
    \cup {Element("library_controllers", {}, <<>>), Element("asset", {}, <<>>)}

RECURSIVE SeqsUpTo(_, _)
SeqsUpTo(S, n) ==
    IF n = 0 THEN {<<>>}
    ELSE LET shorter == SeqsUpTo(S, n - 1)
         IN shorter \cup {Append(q, x) : q \in {r \in shorter : Len(r) = n - 1}, x \in S}

ErrMultipleRoots ==
    "Invalid scene containing multiple root nodes in <instance_visual_scene> element"

ErrReferenceFormat == "Unknown reference format in <instance_visual_scene> element"

ErrUnresolved == "Unable to resolve visual_scene reference in <instance_visual_scene> element."

\* the for loop of ReadStructure is at a child named name
AtChild(name) ==
    /\ ppc = "read"
    /\ pos <= Len(sections)
    /\ sections[pos].name = name

\* ReadSceneLibrary: every visual scene is stored in the library under its id
RSSceneLibrary ==
    /\ AtChild("library_visual_scenes")
    /\ mNodeLibrary' = mNodeLibrary \cup sections[pos].ids
    /\ pos' = pos + 1
    /\ UNCHANGED <<controllers, mControllerLibrary, keyOrder, it, meshId, ppc,
                   sections, mRootNode, thrown>>
    /\ UNCHANGED <<doc, pc, assetVars, hist, ret, crashed, skinVars, otherVars>>

\* ReadScene: the url is looked up in the node library as it is now; an
\* exception leaves ReadStructure
RSScene ==
    /\ AtChild("scene")
    /\ LET url == sections[pos].url
           err == IF mRootNode # <<>> THEN ErrMultipleRoots
                  ELSE IF url[1] # "#" THEN ErrReferenceFormat
                  ELSE IF Tail(url) \notin mNodeLibrary THEN ErrUnresolved
                  ELSE ""
       IN /\ thrown' = err
          /\ mRootNode' = IF err = "" THEN Tail(url) ELSE mRootNode
          /\ ppc' = IF err = "" THEN ppc ELSE "failed"
          /\ pos' = IF err = "" THEN pos + 1 ELSE pos
    /\ UNCHANGED <<controllers, mControllerLibrary, keyOrder, it, meshId,
                   sections, mNodeLibrary>>
    /\ UNCHANGED <<doc, pc, assetVars, hist, ret, crashed, skinVars, otherVars>>

\* ReadControllerLibrary: the element it is given is not named "controller",
\* so it returns before it stores anything
RSControllerLibrary ==
    /\ AtChild("library_controllers")
    /\ pos' = pos + 1
    /\ UNCHANGED <<controllers, mControllerLibrary, keyOrder, it, meshId, ppc,
                   sections, mNodeLibrary, mRootNode, thrown>>
    /\ UNCHANGED <<doc, pc, assetVars, hist, ret, crashed, skinVars, otherVars>>

\* a child whose reader touches neither library nor the root node
RSOther ==
    /\ AtChild("asset")
    /\ pos' = pos + 1
    /\ UNCHANGED <<controllers, mControllerLibrary, keyOrder, it, meshId, ppc,
                   sections, mNodeLibrary, mRootNode, thrown>>
    /\ UNCHANGED <<doc, pc, assetVars, hist, ret, crashed, skinVars, otherVars>>

\* the end of the for loop: PostProcessRootAnimations, then
\* PostProcessControllers is entered
RSPostProcess ==
    /\ ppc = "read"
    /\ pos > Len(sections)
    /\ ppc' = "for"
    /\ it' = 1
    /\ UNCHANGED <<controllers, mControllerLibrary, keyOrder, meshId,
                   sections, pos, mNodeLibrary, mRootNode, thrown>>
    /\ UNCHANGED <<doc, pc, assetVars, hist, ret, crashed, skinVars, otherVars>>

\* ReadStructure is entered by a new parser with the children of <COLLADA>
InitCollada ==
    /\ doc = Obj(NoMembers)
    /\ InitAsset
    /\ NoSkin /\ NoGeometry /\ NoBuffer /\ NoExport
    /\ sections \in SeqsUpTo(Elements, MaxSections)
    /\ controllers = EmptyMap
    /\ mControllerLibrary = EmptyMap
    /\ keyOrder = <<>>
    /\ it = 1
    /\ meshId = ""
    /\ ppc = "read"
    /\ pos = 1
    /\ mNodeLibrary = {}
    /\ mRootNode = <<>>
    /\ thrown = ""

NextCollada ==
    \/ RSSceneLibrary
    \/ RSScene
    \/ RSControllerLibrary
    \/ RSOther
    \/ RSPostProcess
    \/ PPFor

SpecCollada == InitCollada /\ [][NextCollada]_vars

\* the positions of the children named name
Children(name) == {k \in 1..Len(sections) : sections[k].name = name}

\* C19: when ReadStructure is over for a document with one <scene> element,
\* whose url names visual scene S, and a <library_visual_scenes> that
\* defines S, the root node is S and no error was raised, wherever the
\* <scene> element stands among the children
C19_RootAfterWalk ==
    (/\ ppc \in {"done", "failed"}
     /\ \E k \in 1..Len(sections) : Children("scene") = {k}
                                    /\ sections[k].url = <<"#", "S">>
     /\ \E k \in Children("library_visual_scenes") : <<"S">> \in sections[k].ids)
    => (mRootNode = <<"S">> /\ thrown = "")

\* C20: the id of every object that Retrieve built is the one its own entry
\* gives it, the name of the dictionary and the entry's index, whichever
\* objects referenced it and in whatever order they were read
C20_OwnRecord ==
    Created = 0 =>
        \A d \in DictIds : \A k \in 1..Len(mObjs[d]) :
            mObjs[d][k].id = d \o "_" \o to_string(mObjs[d][k].oIndex)

\* ------------------------------------------------------------------------
\* The index cache under Create, and the asset after Load
\* ------------------------------------------------------------------------

\* C25: whatever Retrieve and Create calls were made, the index cache maps
\* every document index that a Retrieve has resolved to the object that was
\* built for it then, and a Retrieve that returns gives an object built from
\* the document entry of its index, never one made by Create
C25_CacheStable ==
    /\ \A e \in DOMAIN firstRet :
          /\ MapHas(mObjsByOIndex[e[1]], e[2])
          /\ mObjsByOIndex[e[1]][e[2]] = firstRet[e].ref.index
          /\ Deref(Cur, firstRet[e].ref).addr = firstRet[e].addr
    /\ (ret.op = "Retrieve" /\ ret.err = "" /\ ~crashed) =>
          /\ CanDeref(Cur, ret.ref)
          /\ Deref(Cur, ret.ref).id \notin {hist[k].id : k \in 1..Len(hist)}

\* C28: once Load has returned without error, on an asset that Create was
\* never called on, every dictionary is detached; a Retrieve(i) for an index
\* resolved during the load returns the cached handle and a Retrieve(i) for
\* any other index throws the missing-section error; neither constructs an
\* object nor changes a dictionary
C28_AfterLoadStep ==
    (pc = "done" /\ Created = 0) =>
        /\ \A d \in DictIds : IsNull(mDict[d])
        /\ ret'.op = "Retrieve" =>
              /\ ~crashed'
              /\ UNCHANGED <<mDict, mObjs, mObjsByOIndex, mObjsById, mUsedIds,
                             scene, nextAddr, newCount>>
              /\ IF MapHas(mObjsByOIndex[ret'.d], ret'.i)
                 THEN /\ ret'.err = ""
                      /\ ret'.ref = Ref(ret'.d, mObjsByOIndex[ret'.d][ret'.i])
                      /\ Deref(Cur, ret'.ref).oIndex = ret'.i
                 ELSE /\ ret'.err = ErrMissingSection(ret'.d)
                      /\ ret'.ref = NullRef

C28_AfterLoad == [][C28_AfterLoadStep]_vars

\* after the load of the document whose scene references only mesh 1, a
\* Retrieve of mesh 0 has thrown the missing-section error
C28_Witness ==
    /\ pc = "done" /\ doc = DocScenario /\ Created = 0
    /\ ret.op = "Retrieve" /\ ret.d = "meshes" /\ ret.i = 0
    /\ ret.err = ErrMissingSection("meshes")
    /\ MapHas(mObjsByOIndex["meshes"], 1)
    /\ Len(mObjs["meshes"]) = 1

\* ------------------------------------------------------------------------
\* ColladaParser::ReadGeometryLibrary
\* ------------------------------------------------------------------------

MaxGeometries == 3

\* a <geometry> element: its id and name attributes
Geometries == [id : {"G1", "G2"}, name : {"a", "b"}]

\* mMeshLibrary.find(id) == mMeshLibrary.cend(), with every id taken for new
AlwaysNew(lib, id) == TRUE

\* mMeshLibrary.find(id) == mMeshLibrary.cend()
IsNewId(lib, id) == ~MapHas(lib, id)

\* the loop is at a <geometry> element
AtGeometry ==
    /\ epc = "idle" /\ gpos <= Len(geometries)

\* a <geometry> with a new id: the mesh is made, read and put into the library
RGLRead ==
    /\ AtGeometry
    /\ IsNewId(mMeshLibrary, geometries[gpos].id)
    /\ mMeshLibrary' = MapPut(mMeshLibrary, geometries[gpos].id,
                              [mId |-> geometries[gpos].id,
                               mName |-> geometries[gpos].name])
    /\ gpos' = gpos + 1
    /\ UNCHANGED <<geometries, bufferVars, exportVars>>
    /\ UNCHANGED <<doc, pc, assetVars, hist, ret, crashed, colladaVars, skinVars>>

\* a <geometry> with an id the library has: logged and skipped
RGLSkip ==
    /\ AtGeometry
    /\ ~IsNewId(mMeshLibrary, geometries[gpos].id)
    /\ gpos' = gpos + 1
    /\ UNCHANGED <<geometries, mMeshLibrary, bufferVars, exportVars>>
    /\ UNCHANGED <<doc, pc, assetVars, hist, ret, crashed, colladaVars, skinVars>>

\* ReadGeometryLibrary is entered by a new parser at a <library_geometries>
InitGeometry ==
    /\ doc = Obj(NoMembers)
    /\ InitAsset
    /\ NoCollada /\ NoSkin /\ NoBuffer /\ NoExport
    /\ geometries \in SeqsUpTo(Geometries, MaxGeometries)
    /\ gpos = 1
    /\ mMeshLibrary = EmptyMap

NextGeometry == RGLRead \/ RGLSkip

SpecGeometry == InitGeometry /\ [][NextGeometry]_vars

\* the place of the first <geometry> with this id among those read so far
FirstWithId(id) ==
    CHOOSE k \in 1..(gpos - 1) :
        /\ geometries[k].id = id
        /\ \A j \in 1..(k - 1) : geometries[j].id # id

\* C21: at every point of ReadGeometryLibrary no error has been raised, the
\* mesh library holds exactly the ids of the <geometry> elements read so
\* far, and under each id the mesh made from the first element with that id
C21_FirstKept ==
    /\ thrown = ""
    /\ DOMAIN mMeshLibrary = {geometries[k].id : k \in 1..(gpos - 1)}
    /\ \A id \in DOMAIN mMeshLibrary :
          /\ mMeshLibrary[id].mId = id
          /\ mMeshLibrary[id].mName = geometries[FirstWithId(id)].name

\* the library G1 "a", G2 "a", G1 "b" has been read to its end: the third
\* element was skipped
C21_Witness ==
    /\ geometries = <<[id |-> "G1", name |-> "a"], [id |-> "G2", name |-> "a"],
                      [id |-> "G1", name |-> "b"]>>
    /\ gpos = 4
    /\ mMeshLibrary["G1"].mName = "a"

\* ------------------------------------------------------------------------
\* Buffer::ReplaceData
\* ------------------------------------------------------------------------

MaxBytes == 4

MaxCalls == 2

\* a byte that was allocated and never written
Indeterminate == "?"

\* n bytes of replacement data
NewBytes(n) == [k \in 1..n |-> "x"]

\* n bytes that were never written
Unwritten(n) == [k \in 1..n |-> Indeterminate]

\* the buffer after ReplaceData: new uint8_t[new_data_size] and the three
\* memcpy calls, the third of which copies pBufferData_Offset bytes
Replaced(old, offset, count, n) ==
    LET tail == Len(old) - offset - count
        copied == IF offset < tail THEN offset ELSE tail
    IN SubSeq(old, 1, offset) \o NewBytes(n)
       \o SubSeq(old, offset + count + 1, offset + count + copied)
       \o Unwritten(tail - copied)

\* ReplaceData(offset, count, data, n) on a buffer that holds the range; a
\* third memcpy longer than the rest of the buffer reads past the old array
\* and writes past the new one, which ends the process or goes unnoticed
DoReplaceData(offset, count, isNull, n) ==
    /\ epc = "buffer" /\ ~crashed
    /\ calls < MaxCalls
    /\ offset + count <= byteLength
    /\ byteLength + n - count <= MaxBytes
    /\ calls' = calls + 1
    /\ IF count = 0 \/ n = 0 \/ isNull
       THEN /\ UNCHANGED <<mData, byteLength, outside, crashed>>
            /\ ret' = Ret("ReplaceData", "", offset, "false", Rep("x", n), "",
                          NullRef, "", count)
       ELSE /\ \E ub \in UBOutcomes :
                 IF offset > byteLength - offset - count /\ ub = "dies"
                 THEN /\ crashed' = TRUE
                      /\ outside' = TRUE
                      /\ UNCHANGED <<mData, byteLength>>
                 ELSE /\ crashed' = FALSE
                      /\ outside' = (outside \/ offset > byteLength - offset - count)
                      /\ mData' = Replaced(mData, offset, count, n)
                      /\ byteLength' = byteLength + n - count
            /\ ret' = Ret("ReplaceData", "", offset, "true", Rep("x", n), "",
                          NullRef, "", count)
    /\ UNCHANGED <<geomVars, exportVars>>
    /\ UNCHANGED <<doc, pc, assetVars, hist, colladaVars, skinVars>>

\* a buffer that holds up to MaxBytes bytes, each different from the others
InitReplace ==
    /\ doc = Obj(NoMembers)
    /\ InitAsset
    /\ NoCollada /\ NoSkin /\ NoGeometry
    /\ mScene = <<>> /\ mFilename = "" /\ epc = "buffer"
    /\ \E len \in 0..MaxBytes :
          /\ mData = [k \in 1..len |-> ToString(k)]
          /\ byteLength = len
    /\ outside = FALSE
    /\ calls = 0

NextReplace ==
    \E offset \in 0..MaxBytes, count \in 0..MaxBytes, isNull \in BOOLEAN, n \in 0..2 :
        DoReplaceData(offset, count, isNull, n)

SpecReplace == InitReplace /\ [][NextReplace]_vars

\* C24: a ReplaceData with count > 0, n > 0 and data, on a buffer that holds
\* the range, does not end the process and touches no byte outside the two
\* arrays; the buffer then is the bytes before the range, the data, and the
\* bytes after the range; any other ReplaceData returns false and leaves the
\* buffer as it was
C24_ReplaceStep ==
    ret'.op = "ReplaceData" /\ calls' = calls + 1 =>
        IF ret'.id = "true"
        THEN /\ ~crashed'
             /\ ~outside'
             /\ byteLength' = byteLength + Len(ret'.str) - ret'.rep
             /\ mData' = SubSeq(mData, 1, ret'.i) \o NewBytes(Len(ret'.str))
                         \o SubSeq(mData, ret'.i + ret'.rep + 1, Len(mData))
        ELSE UNCHANGED <<mData, byteLength>>

C24_ReplaceData == [][C24_ReplaceStep]_vars

\* ------------------------------------------------------------------------
\* ExportData of the exporter and Image::SetData, on one buffer
\* ------------------------------------------------------------------------

\* the byte sizes of the component types
ComponentSizes == {1, 2, 4}

\* a Grow that leaves the buffer as it is
GrowNot(len, amount) == len

\* Buffer::Grow: the length after it
Grow(len, amount) == IF amount <= 0 THEN len ELSE len + amount

\* count * numCompsOut * bytesPerComp, a product of unsigned ints: the
\* lengths followed here stay far below the range of unsigned, where the
\* product and unsigned(offset) are the numbers themselves
DataLength(count, numCompsOut, bytesPerComp) == count * numCompsOut * bytesPerComp

\* size_t offset = buffer->byteLength; size_t padding = offset % bytesPerComp;
\* offset += padding;
Aligned(len, bytesPerComp) == len + (len % bytesPerComp)

\* the members of the object behind a handle are assigned
WithFields(r, f) ==
    IF Failed(r) \/ r.crash THEN r
    ELSE [r EXCEPT !.a.mObjs[r.ref.vector][r.ref.index + 1] = f @@ @]

\* dict.Create(FindUniqueID(...)), given the result of FindUniqueID
CreateUnique(f, d) ==
    IF f.crash THEN Crash(f.a, f.err) ELSE Create(f.a, d, f.id)

\* the bufferView of ExportData
ExportView(a, meshName, offset, length, ub) ==
    WithFields(CreateUnique(FindUniqueID(a, meshName, "view", ub), "bufferViews"),
               [byteOffset |-> offset, byteLength |-> length,
                data |-> "accessor"])

\* the accessor of ExportData, given the result of making the bufferView
ExportAccessor(rv, meshName, count, numCompsOut, bytesPerComp, ub) ==
    IF Failed(rv) \/ rv.crash THEN rv
    ELSE WithFields(CreateUnique(FindUniqueID(rv.a, meshName, "accessor", ub),
                                 "accessors"),
                    [bufferView |-> rv.ref, byteOffset |-> 0, count |-> count,
                     numComponents |-> numCompsOut, componentSize |-> bytesPerComp])

\* ExportData up to the copy of the data; the buffer length is Grown aside
ExportData(a, len, meshName, count, hasData, numCompsOut, bytesPerComp, ub) ==
    IF count = 0 \/ ~hasData THEN Ok(a, NullRef)
    ELSE ExportAccessor(ExportView(a, meshName, Aligned(len, bytesPerComp),
                                   DataLength(count, numCompsOut, bytesPerComp), ub),
                        meshName, count, numCompsOut, bytesPerComp, ub)

\* buffer->Grow(length + padding) of an ExportData that does not return early
ExportedLength(len, count, hasData, numCompsOut, bytesPerComp) ==
    IF count = 0 \/ ~hasData THEN len
    ELSE Grow(len, DataLength(count, numCompsOut, bytesPerComp) + (len % bytesPerComp))

\* the ai_assert of Accessor::WriteData fails: the copy ends past the buffer
WritesOutside(len, count, hasData, numCompsOut, bytesPerComp) ==
    /\ count # 0 /\ hasData
    /\ Aligned(len, bytesPerComp) + count * numCompsOut * bytesPerComp
       > ExportedLength(len, count, hasData, numCompsOut, bytesPerComp)

\* Image::SetData on an asset with a body buffer
SetData(a, len, imageId, length, ub) ==
    WithFields(CreateUnique(FindUniqueID(a, imageId, "imgdata", ub), "bufferViews"),
               [byteOffset |-> len, byteLength |-> length, data |-> "image"])

\* the dictionaries of an asset that is being exported
ExportDictIds ==
    {"scenes", "nodes", "meshes", "materials", "images", "skins", "buffers",
     "bufferViews", "accessors"}

\* Asset::Asset, for the dictionaries of an export
EmptyAsset ==
    [mDict |-> [d \in ExportDictIds |-> Null],
     mObjs |-> [d \in ExportDictIds |-> <<>>],
     mObjsByOIndex |-> [d \in ExportDictIds |-> EmptyMap],
     mObjsById |-> [d \in ExportDictIds |-> EmptyMap],
     mUsedIds |-> EmptyMap, scene |-> NullRef, docAlive |-> FALSE,
     nextAddr |-> 1, newCount |-> EmptyMap, firstRet |-> EmptyMap]

\* the variables of the asset hold the asset a
Holds(a) ==
    /\ mDict = a.mDict
    /\ mObjs = a.mObjs
    /\ mObjsByOIndex = a.mObjsByOIndex
    /\ mObjsById = a.mObjsById
    /\ mUsedIds = a.mUsedIds
    /\ scene = a.scene
    /\ docAlive = a.docAlive
    /\ nextAddr = a.nextAddr
    /\ newCount = a.newCount
    /\ firstRet = a.firstRet

\* ExportData(a, meshName "m", buffer, count, data, ..., compType)
DoExportData(count, hasData, numCompsOut, bytesPerComp) ==
    /\ epc = "views" /\ ~crashed
    /\ calls < MaxCalls
    /\ calls' = calls + 1
    /\ \E ub \in UBOutcomes :
         \E r \in {ExportData(Cur, byteLength, "m", count, hasData, numCompsOut,
                              bytesPerComp, ub)} :
            /\ Becomes(r.a)
            /\ crashed' = r.crash
            /\ ret' = Ret("ExportData", "accessors", bytesPerComp, "", "m", "",
                          r.ref, r.err, count)
    /\ byteLength' = ExportedLength(byteLength, count, hasData, numCompsOut, bytesPerComp)
    /\ outside' = (outside \/ WritesOutside(byteLength, count, hasData, numCompsOut,
                                            bytesPerComp))
    /\ UNCHANGED <<mData, geomVars, exportVars>>
    /\ UNCHANGED <<doc, pc, hist, colladaVars, skinVars>>

\* image "i" ->SetData(data, length, asset), the asset having a body buffer
DoSetData(length) ==
    /\ epc = "views" /\ ~crashed
    /\ calls < MaxCalls
    /\ calls' = calls + 1
    /\ \E ub \in UBOutcomes :
         \E r \in {SetData(Cur, byteLength, "i", length, ub)} :
            /\ Becomes(r.a)
            /\ crashed' = r.crash
            /\ ret' = Ret("SetData", "bufferViews", 0, "", "i", "", r.ref, r.err, length)
    /\ byteLength' = Grow(byteLength, length)
    /\ UNCHANGED <<mData, outside, geomVars, exportVars>>
    /\ UNCHANGED <<doc, pc, hist, colladaVars, skinVars>>

\* an asset with an empty buffer, a mesh "m" and an image "i". The bytes
\* themselves are not followed here: the calls depend on the length alone
InitViews ==
    /\ doc = Obj(NoMembers)
    /\ pc = "idle" /\ hist = <<>> /\ ret = NoRet /\ crashed = FALSE
    /\ Holds(Create(Create(Create(EmptyAsset, "buffers", "b").a, "meshes", "m").a,
                    "images", "i").a)
    /\ NoCollada /\ NoSkin /\ NoGeometry
    /\ mScene = <<>> /\ mFilename = "" /\ epc = "views"
    /\ mData = <<>>
    /\ byteLength = 0
    /\ outside = FALSE
    /\ calls = 0

NextViews ==
    \/ \E count \in 0..2, hasData \in BOOLEAN, numCompsOut \in {1, 3},
          bytesPerComp \in ComponentSizes :
          DoExportData(count, hasData, numCompsOut, bytesPerComp)
    \/ \E length \in 1..2 : DoSetData(length)

SpecViews == InitViews /\ [][NextViews]_vars

\* the bufferViews and the accessors of the asset
Views == {mObjs["bufferViews"][k] : k \in 1..Len(mObjs["bufferViews"])}

Accessors == {mObjs["accessors"][k] : k \in 1..Len(mObjs["accessors"])}

\* C22: the byteOffset of the bufferView of every accessor that ExportData
\* has made is a multiple of the byte size of the accessor's component type
C22_Aligned ==
    \A acc \in Accessors :
        Deref(Cur, acc.bufferView).byteOffset % acc.componentSize = 0

\* C29: no ExportData has copied past the end of the buffer, the bufferView
\* of the last ExportData ends where the buffer ends, and no two bufferViews
\* of the buffer share a byte
C29_ViewsInside ==
    /\ ~outside
    /\ (ret.op = "ExportData" /\ IsSet(ret.ref) /\ ~crashed) =>
          LET bv == Deref(Cur, Deref(Cur, ret.ref).bufferView)
          IN bv.byteOffset + bv.byteLength = byteLength
    /\ \A v, w \in Views :
          v # w => (v.byteOffset + v.byteLength <= w.byteOffset
                    \/ w.byteOffset + w.byteLength <= v.byteOffset)

\* two ExportData calls have made two bufferViews that hold data
C29_Witness ==
    /\ ret.op = "ExportData" /\ IsSet(ret.ref) /\ ~crashed
    /\ \E v, w \in Views :
          /\ v # w /\ v.data = "accessor" /\ w.data = "accessor"
          /\ v.byteLength > 0 /\ w.byteLength > 0 /\ w.byteOffset > v.byteOffset
          /\ w.byteOffset # v.byteOffset + v.byteLength

\* ------------------------------------------------------------------------
\* glTF2Exporter: materials, node hierarchy, meshes and scene of a text export
\* ------------------------------------------------------------------------
MaxSceneNodes == 3

SceneNames == {"n", "defaultScene"}

\* aiMesh: triangles without normals, texture coordinates and bones
MeshA == [mName |-> "n", mMaterialIndex |-> 0, mNumVertices |-> 3, mNumFaces |-> 1]

MeshB == [mName |-> "", mMaterialIndex |-> 1, mNumVertices |-> 3, mNumFaces |-> 0]

\* mMeshes and the names of mMaterials of an aiScene
SceneParts ==
    {[mMeshes |-> <<>>, mMaterials |-> <<>>],
     [mMeshes |-> <<MeshA>>, mMaterials |-> <<"n">>],
     [mMeshes |-> <<MeshA, MeshB>>, mMaterials |-> <<"n", "">>]}

\* aiNode::mMeshes: none, or every mesh of the scene, the last one first
MeshLists(numMeshes) == {<<>>, [i \in 1..numMeshes |-> numMeshes - i]}

RECURSIVE Below(_, _, _)

\* the node k is the node 1 or below it, at most fuel steps down
Below(p, k, fuel) == k = 1 \/ (fuel > 0 /\ p[k] # 0 /\ Below(p, p[k], fuel - 1))

\* the node 1 has no parent and every other node is below it
Parents(n) ==
    {p \in [1..n -> 0..n] : /\ \A k \in 1..n : (p[k] = 0) = (k = 1)
                            /\ \A k \in 1..n : Below(p, k, n)}

\* the aiNode trees of n nodes: node 1 is mRootNode, the children of a node
\* are the nodes that name it as mParent, in the order of their numbers
NodeSeqs(n, numMeshes) ==
    {[k \in 1..n |-> [mName |-> nm[k], mParent |-> par[k], mMeshes |-> ms[k]]] :
        nm \in [1..n -> SceneNames], par \in Parents(n),
        ms \in [1..n -> MeshLists(numMeshes)]}

\* aiScene of at most max nodes: no nodes stands for a null mRootNode
Scenes(max) ==
    UNION {{[nodes |-> ns, mMeshes |-> part.mMeshes, mMaterials |-> part.mMaterials] :
              ns \in NodeSeqs(n, Len(part.mMeshes))} :
           n \in 0..max, part \in SceneParts}

\* the file name, cut before and at every dot
Filenames == {<<"out", ".gltf">>, <<"defaultScene", ".gltf">>}

\* n->mChildren
InputChildren(sc, k) ==
    SelectSeq([j \in 1..Len(sc.nodes) |-> j], LAMBDA j : sc.nodes[j].mParent = k)

\* fname.substr(0, fname.rfind(".gltf"))
RFind(fname, part) ==
    IF \E i \in 1..Len(fname) : fname[i] = part
    THEN CHOOSE i \in 1..Len(fname) :
            fname[i] = part /\ \A j \in (i + 1)..Len(fname) : fname[j] # part
    ELSE Len(fname) + 1

RECURSIVE Joined(_)

Joined(parts) == IF parts = <<>> THEN "" ELSE Head(parts) \o Joined(Tail(parts))

BufferIdPrefix(fname) == Joined(SubSeq(fname, 1, RFind(fname, ".gltf") - 1))

Stopped(r) == Failed(r) \/ r.crash

RECURSIVE ExportMaterialsFrom(_, _, _)

\* ExportMaterials, for materials without textures
ExportMaterialsFrom(r, names, ub) ==
    IF Stopped(r) \/ names = <<>> THEN r
    ELSE ExportMaterialsFrom(
             CreateUnique(FindUniqueID(r.a, Head(names), "material", ub), "materials"),
             Tail(names), ub)

\* node->meshes.push_back(mAsset->meshes.Get(n->mMeshes[i])), for every i
PushMeshes(r, ms) ==
    IF Stopped(r) THEN r
    ELSE [r EXCEPT !.a.mObjs["nodes"][r.ref.index + 1].meshes =
                      @ \o [i \in 1..Len(ms) |-> Get(r.a, "meshes", ms[i]).ref]]

\* children.push_back at the front of the list
PushChildFront(r, c) ==
    IF Stopped(c) THEN c
    ELSE [c EXCEPT !.ref = r.ref,
                   !.a.mObjs["nodes"][r.ref.index + 1].children =
                      <<Get(c.a, "nodes", c.ref.index).ref>> \o @]

\* node->children.push_back(mAsset->nodes.Get(idx)), idx the index that
\* ExportNode has returned for the child
PushChild(r, c) ==
    IF Stopped(c) THEN c
    ELSE [c EXCEPT !.ref = r.ref,
                   !.a.mObjs["nodes"][r.ref.index + 1].children =
                      Append(@, Get(c.a, "nodes", c.ref.index).ref)]

\* node->name = name, the id of the node
SetName(r) ==
    IF Stopped(r) THEN r
    ELSE [r EXCEPT !.a.mObjs["nodes"][r.ref.index + 1].name = Deref(r.a, r.ref).id]

RECURSIVE ExportNode(_, _, _, _, _)

RECURSIVE ExportChildren(_, _, _, _)

\* the loop over n->mChildren of the node r.ref
ExportChildren(r, sc, kids, ub) ==
    IF Stopped(r) \/ kids = <<>> THEN r
    ELSE ExportChildren(PushChild(r, ExportNode(r.a, sc, Head(kids), r.ref, ub)),
                        sc, Tail(kids), ub)

\* ExportNode(n, parent) for the node k of the scene
ExportNode(a, sc, k, parentRef, ub) ==
    ExportChildren(
        PushMeshes(
            SetName(WithFields(CreateUnique(FindUniqueID(a, sc.nodes[k].mName, "node",
                                                       ub),
                                          "nodes"),
                             [parent |-> parentRef])),
            sc.nodes[k].mMeshes),
        sc, InputChildren(sc, k), ub)

\* ExportNodeHierarchy(mScene->mRootNode): parent and name stay as constructed
ExportNodeHierarchy(a, sc, ub) ==
    ExportChildren(
        PushMeshes(
            WithFields(CreateUnique(FindUniqueID(a, sc.nodes[1].mName, "node", ub),
                                    "nodes"),
                       [parent |-> NullRef]),
            sc.nodes[1].mMeshes),
        sc, InputChildren(sc, 1), ub)

\* the buffer of ExportMeshes, the asset having no body buffer
ExportBuffer(a, fname, ub) ==
    CreateUnique(FindUniqueID(a, "", BufferIdPrefix(fname), ub), "buffers")

\* meshes.Create(meshId); m->name = name; p.material = materials.Get(...)
MeshCreated(a, aim, ub) ==
    WithFields(CreateUnique(FindUniqueID(a, aim.mName, "mesh", ub), "meshes"),
               [name |-> aim.mName,
                primitives |-> <<[material |-> Get(a, "materials",
                                                   aim.mMaterialIndex).ref,
                                  position |-> NullRef, indices |-> NullRef]>>])

\* an accessor is put into the primitive of the mesh
SetPrimitive(r, mesh, attr) ==
    IF Stopped(r) THEN r
    ELSE [r EXCEPT !.ref = mesh,
                   !.a.mObjs["meshes"][mesh.index + 1].primitives[1][attr] = r.ref]

\* ExportData(*mAsset, meshId, b, mNumVertices, mVertices, VEC3, VEC3, FLOAT)
MeshPositions(m, len, aim, ub) ==
    IF Stopped(m) THEN m
    ELSE SetPrimitive(ExportData(m.a, len, Deref(m.a, m.ref).id, aim.mNumVertices,
                                 TRUE, 3, 4, ub),
                      m.ref, "position")

\* ExportData(*mAsset, meshId, b, indices.size(), &indices[0], SCALAR, SCALAR,
\* UNSIGNED_SHORT, true), for faces of three indices
MeshIndices(m, len, aim, ub) ==
    IF Stopped(m) \/ aim.mNumFaces = 0 THEN m
    ELSE SetPrimitive(ExportData(m.a, len, Deref(m.a, m.ref).id, aim.mNumFaces * 3,
                                 TRUE, 1, 2, ub),
                      m.ref, "indices")

\* the length of the buffer after the positions of a mesh
PositionsLength(len, aim) == ExportedLength(len, aim.mNumVertices, TRUE, 3, 4)

\* the length of the buffer after a mesh
MeshLength(len, aim) ==
    IF aim.mNumFaces = 0 THEN PositionsLength(len, aim)
    ELSE ExportedLength(PositionsLength(len, aim), aim.mNumFaces * 3, TRUE, 1, 2)

\* one round of the loop over mScene->mMeshes
ExportMesh(a, len, aim, ub) ==
    MeshIndices(MeshPositions(MeshCreated(a, aim, ub), len, aim, ub),
                PositionsLength(len, aim), aim, ub)

RECURSIVE ExportMeshesFrom(_, _, _, _)

ExportMeshesFrom(r, len, meshes, ub) ==
    IF Stopped(r) \/ meshes = <<>> THEN r
    ELSE ExportMeshesFrom(ExportMesh(r.a, len, Head(meshes), ub),
                          MeshLength(len, Head(meshes)), Tail(meshes), ub)

RECURSIVE MeshesLength(_, _)

MeshesLength(len, meshes) ==
    IF meshes = <<>> THEN len
    ELSE MeshesLength(MeshLength(len, Head(meshes)), Tail(meshes))

\* the node that ExportScene puts into the scene: the last one
LastNode(a) == <<Get(a, "nodes", Len(a.mObjs["nodes"]) - 1).ref>>

\* scene->nodes.push_back(mAsset->nodes.Get(0u))
FirstNode(a) == <<Get(a, "nodes", 0).ref>>

\* ExportScene, given the result of scenes.Create
SceneCreated(r) ==
    IF Stopped(r) THEN r
    ELSE [r EXCEPT !.a.mObjs["scenes"][r.ref.index + 1].nodes =
                      IF Len(r.a.mObjs["nodes"]) > 0 THEN FirstNode(r.a) ELSE <<>>,
                   !.a.scene = r.ref]

\* an exception leaves the constructor of the exporter
After(r, next) == IF Stopped(r) THEN "failed" ELSE next

ExportStep(op, r, next) ==
    /\ Becomes(r.a)
    /\ crashed' = r.crash
    /\ epc' = After(r, next)
    /\ ret' = Ret(op, "", 0, "", "", "", r.ref, r.err, 0)
    /\ UNCHANGED <<mScene, mFilename, mData, outside, calls, geomVars>>
    /\ UNCHANGED <<doc, pc, hist, colladaVars, skinVars>>

ExportMaterials ==
    /\ epc = "materials"
    /\ \E ub \in UBOutcomes :
          ExportStep("ExportMaterials",
                     ExportMaterialsFrom(Ok(Cur, NullRef), mScene.mMaterials, ub),
                     "nodes")
    /\ UNCHANGED byteLength

DoExportNodeHierarchy ==
    /\ epc = "nodes"
    /\ \E ub \in UBOutcomes :
          ExportStep("ExportNodeHierarchy",
                     IF mScene.nodes # <<>> THEN ExportNodeHierarchy(Cur, mScene, ub)
                     ELSE Ok(Cur, NullRef),
                     "meshes")
    /\ UNCHANGED byteLength

ExportMeshes ==
    /\ epc = "meshes"
    /\ \E ub \in UBOutcomes :
          ExportStep("ExportMeshes",
                     ExportMeshesFrom(ExportBuffer(Cur, mFilename, ub), byteLength,
                                      mScene.mMeshes, ub),
                     "scene")
    /\ byteLength' = MeshesLength(byteLength, mScene.mMeshes)

ExportScene ==
    /\ epc = "scene"
    /\ ExportStep("ExportScene", SceneCreated(Create(Cur, "scenes", "defaultScene")),
                  "done")
    /\ UNCHANGED byteLength

\* the constructor of the exporter up to ExportMaterials
InitExport ==
    /\ doc = Obj(NoMembers)
    /\ pc = "idle" /\ hist = <<>> /\ ret = NoRet /\ crashed = FALSE
    /\ Holds(EmptyAsset)
    /\ NoCollada /\ NoSkin /\ NoGeometry /\ NoBuffer
    /\ mScene \in Scenes(MaxSceneNodes)
    /\ mFilename \in Filenames
    /\ epc = "materials"

NextExport ==
    \/ ExportMaterials
    \/ DoExportNodeHierarchy
    \/ ExportMeshes
    \/ ExportScene

SpecExport == InitExport /\ [][NextExport]_vars

RECURSIVE Preorder(_, _)

RECURSIVE PreorderOf(_, _)

\* the nodes of the scene at and below the node k, parents first, the
\* children of a node in their order
Preorder(sc, k) == <<k>> \o PreorderOf(sc, InputChildren(sc, k))

PreorderOf(sc, kids) ==
    IF kids = <<>> THEN <<>>
    ELSE Preorder(sc, Head(kids)) \o PreorderOf(sc, Tail(kids))

\* the handle of the k-th node of that order
Exported(sc, k) ==
    Ref("nodes", (CHOOSE i \in 1..Len(sc.nodes) : Preorder(sc, 1)[i] = k) - 1)

\* ExportNodeHierarchy has run
NodesExported == epc \in {"meshes", "scene", "done"} /\ mScene.nodes # <<>>

\* ExportMeshes has run
MeshesExported == epc \in {"scene", "done"} /\ mScene.nodes # <<>>

\* C23: after ExportScene the default scene of the asset is the scene made,
\* and its node list holds exactly one handle, to the node of index 0, which
\* is the node made for the root of the input, made before every other node;
\* the list is empty when the input has no root
C23_RootFirst ==
    (ret.op = "ExportScene" /\ epc = "done") =>
        /\ CanDeref(Cur, scene) /\ scene.vector = "scenes"
        /\ Deref(Cur, scene).id = "defaultScene"
        /\ IF mScene.nodes = <<>> THEN Deref(Cur, scene).nodes = <<>>
           ELSE /\ Deref(Cur, scene).nodes = <<Ref("nodes", 0)>>
                /\ Exported(mScene, 1) = Ref("nodes", 0)
                /\ Deref(Cur, Ref("nodes", 0)).parent = NullRef
                /\ Len(Deref(Cur, Ref("nodes", 0)).children)
                   = Len(InputChildren(mScene, 1))
                /\ \A k \in 2..Len(mObjs["nodes"]) :
                      mObjs["nodes"][k].addr > mObjs["nodes"][1].addr

\* the scene of a hierarchy of several nodes has been exported
C23_Witness ==
    /\ ret.op = "ExportScene" /\ epc = "done"
    /\ Len(mObjs["nodes"]) >= 3
    /\ Len(mObjs["materials"]) >= 1

\* C26: no step of the export ends with the error of Create for an id that
\* is registered already
C26_NoDuplicateId == ret.err # ErrDuplicateId

\* C27: after ExportMeshes every mesh handle in the node made for an input
\* node dereferences, in the order of the input node's mesh indices, to the
\* mesh of that index, which carries the name and the material of the mesh
\* of that index of the scene
C27_MeshHandles ==
    MeshesExported =>
        \A k \in 1..Len(mScene.nodes) :
            LET ms == Deref(Cur, Exported(mScene, k)).meshes
                ks == mScene.nodes[k].mMeshes
            IN /\ Len(ms) = Len(ks)
               /\ \A j \in 1..Len(ks) :
                     /\ CanDeref(Cur, ms[j])
                     /\ ms[j] = Ref("meshes", ks[j])
                     /\ Deref(Cur, ms[j]).name = mScene.mMeshes[ks[j] + 1].mName
                     /\ Deref(Cur, ms[j]).primitives[1].material
                        = Ref("materials", mScene.mMeshes[ks[j] + 1].mMaterialIndex)

\* a node with two meshes in another order than the scene's
C27_Witness ==
    /\ MeshesExported
    /\ \E k \in 1..Len(mObjs["nodes"]) :
          /\ Len(mObjs["nodes"][k].meshes) = 2
          /\ Deref(Cur, mObjs["nodes"][k].meshes[1]).name
             # Deref(Cur, mObjs["nodes"][k].meshes[2]).name

\* C30: after ExportNodeHierarchy there is one node for each input node; the
\* node of the root has a null parent, the parent of every other node is a
\* handle to the node of its input parent, and the children of every node
\* are the handles to the nodes of its input children, in their order
C30_Tree ==
    NodesExported =>
        /\ Len(mObjs["nodes"]) = Len(mScene.nodes)
        /\ \A k \in 1..Len(mScene.nodes) :
              LET node == Deref(Cur, Exported(mScene, k))
                  kids == InputChildren(mScene, k)
              IN /\ node.parent = IF k = 1 THEN NullRef
                                  ELSE Exported(mScene, mScene.nodes[k].mParent)
                 /\ node.children = [j \in 1..Len(kids) |-> Exported(mScene, kids[j])]

\* a hierarchy of three levels whose nodes are not made in the order of
\* their numbers in the input
C30_Witness ==
    /\ NodesExported
    /\ \E k \in 1..Len(mObjs["nodes"]) :
          /\ IsSet(mObjs["nodes"][k].parent)
          /\ Len(mObjs["nodes"][k].children) = 1
    /\ \E k \in 1..Len(mScene.nodes) : Exported(mScene, k) # Ref("nodes", k - 1)

====
